---------------------------- MODULE Spec2Model ----------------------------
(***************************************************************************)
(* Worker service of the log-ingestion pipeline: the Pub/Sub push handler  *)
(* POST /process (worker-service/api/process.py) with its payload decoding *)
(* and the redaction engine (worker-service/utils.py).                     *)
(*                                                                         *)
(* Texts are sequences of Unicode code points.  Attribute strings, which   *)
(* the handler only compares and tests for emptiness, are TLA+ strings.    *)
(***************************************************************************)
EXTENDS Integers, Sequences, FiniteSets, TLC

(***************************************************************************)
(* Characters                                                              *)
(***************************************************************************)

\* The printable ASCII characters, code points 32..126, in order (the
\* double quote, backslash and backquote are written by name).
Ascii ==
  << " ", "!", "DQUOTE", "#", "$", "%", "&", "'", "(", ")", "*", "+", ",",
     "-", ".", "/", "0", "1", "2", "3", "4", "5", "6", "7", "8", "9", ":", ";",
     "<", "=", ">", "?", "@", "A", "B", "C", "D", "E", "F", "G", "H", "I",
     "J", "K", "L", "M", "N", "O", "P", "Q", "R", "S", "T", "U", "V", "W",
     "X", "Y", "Z", "[", "BACKSLASH", "]", "^", "_", "BACKQUOTE",
     "a", "b", "c", "d", "e",
     "f", "g", "h", "i", "j", "k", "l", "m", "n", "o", "p", "q", "r", "s",
     "t", "u", "v", "w", "x", "y", "z", "{", "|", "}", "~" >>

\* ord(c) for a printable ASCII character.
Ord(c) == 31 + CHOOSE k \in 1..Len(Ascii) : Ascii[k] = c

\* The text written as a tuple of one-character strings.
Str(cs) == [k \in 1..Len(cs) |-> Ord(cs[k])]

Digit  == 48..57
Upper  == 65..90
Lower  == 97..122
Alnum  == Digit \cup Upper \cup Lower

\* Separators of the phone patterns, the class [-.\s] (code points < 256).
Space  == (9..13) \cup (28..32) \cup {133, 160}
PhoneSep == {Ord("-"), Ord(".")} \cup Space

\* \w of a str pattern: alphanumerics and the underscore (code points < 256).
WordChar ==
  Alnum \cup {Ord("_")} \cup {170, 178, 179, 181, 185, 186, 188, 189, 190}
        \cup (192..214) \cup (216..246) \cup (248..255)

(***************************************************************************)
(* Transport decoding: base64.b64decode(data).decode("utf-8")              *)
(***************************************************************************)

\* Value of a character of the base64 alphabet, 64 for any other character.
B64Value(c) ==
  IF c \in Upper THEN c - 65
  ELSE IF c \in Lower THEN c - 71
  ELSE IF c \in Digit THEN c + 4
  ELSE IF c = Ord("+") THEN 62
  ELSE IF c = Ord("/") THEN 63
  ELSE 64

\* The character of a 6-bit value.
B64Char(v) ==
  IF v < 26 THEN v + 65
  ELSE IF v < 52 THEN v + 71
  ELSE IF v < 62 THEN v - 4
  ELSE IF v = 62 THEN Ord("+")
  ELSE Ord("/")

\* The non-strict decoder of binascii.a2b_base64, as b64decode calls it:
\* characters outside the alphabet are skipped, a completed pad sequence
\* ends the parse, and a dangling quad is an error.  The state is the
\* position in the quad, the bits left over, and the pads seen in a row.
RECURSIVE A2B(_, _, _, _, _, _)
A2B(s, i, quad, left, pads, out) ==
  IF i > Len(s)
    THEN IF quad # 0 THEN [ok |-> FALSE, bytes |-> << >>]
         ELSE [ok |-> TRUE, bytes |-> out]
  ELSE IF s[i] = Ord("=")
    THEN IF quad >= 2 /\ quad + pads + 1 >= 4
           THEN [ok |-> TRUE, bytes |-> out]
         ELSE A2B(s, i + 1, quad, left,
                  IF quad >= 2 THEN pads + 1 ELSE pads, out)
  ELSE IF B64Value(s[i]) >= 64
    THEN A2B(s, i + 1, quad, left, pads, out)
  ELSE LET v == B64Value(s[i]) IN
       CASE quad = 0 -> A2B(s, i + 1, 1, v, 0, out)
         [] quad = 1 -> A2B(s, i + 1, 2, v % 16, 0,
                            Append(out, left * 4 + (v \div 16)))
         [] quad = 2 -> A2B(s, i + 1, 3, v % 4, 0,
                            Append(out, left * 16 + (v \div 4)))
         [] OTHER    -> A2B(s, i + 1, 0, 0, 0,
                            Append(out, left * 64 + v))

\* base64.b64decode of a str: a non-ASCII character is a ValueError.
b64decode(s) ==
  IF \E k \in 1..Len(s) : s[k] >= 128
    THEN [ok |-> FALSE, bytes |-> << >>]
    ELSE A2B(s, 1, 0, 0, 0, << >>)

Cont(b) == b \in 128..191

\* bytes.decode("utf-8") in strict mode: shortest-form sequences of one to
\* four bytes, no surrogates, nothing above U+10FFFF.
RECURSIVE Utf8Decode(_, _, _)
Utf8Decode(b, i, out) ==
  IF i > Len(b) THEN [ok |-> TRUE, text |-> out]
  ELSE LET b0 == b[i]
           n  == Len(b) - i
           bad == [ok |-> FALSE, text |-> << >>]
       IN
       IF b0 < 128 THEN Utf8Decode(b, i + 1, Append(out, b0))
       ELSE IF b0 \in 194..223
         THEN IF n >= 1 /\ Cont(b[i + 1])
                THEN Utf8Decode(b, i + 2,
                       Append(out, (b0 - 192) * 64 + (b[i + 1] - 128)))
                ELSE bad
       ELSE IF b0 \in 224..239
         THEN IF /\ n >= 2
                 /\ Cont(b[i + 1]) /\ Cont(b[i + 2])
                 /\ (b0 = 224 => b[i + 1] >= 160)
                 /\ (b0 = 237 => b[i + 1] <= 159)
                THEN Utf8Decode(b, i + 3,
                       Append(out, (b0 - 224) * 4096
                                   + (b[i + 1] - 128) * 64 + (b[i + 2] - 128)))
                ELSE bad
       ELSE IF b0 \in 240..244
         THEN IF /\ n >= 3
                 /\ Cont(b[i + 1]) /\ Cont(b[i + 2]) /\ Cont(b[i + 3])
                 /\ (b0 = 240 => b[i + 1] >= 144)
                 /\ (b0 = 244 => b[i + 1] <= 143)
                THEN Utf8Decode(b, i + 4,
                       Append(out, (b0 - 240) * 262144
                                   + (b[i + 1] - 128) * 4096
                                   + (b[i + 2] - 128) * 64 + (b[i + 3] - 128)))
                ELSE bad
       ELSE bad

\* What the push delivery of the queue and create_pubsub_envelope of the
\* tests do to a text: str.encode("utf-8") then base64.b64encode.
RECURSIVE Utf8Encode(_, _)
Utf8Encode(t, i) ==
  IF i > Len(t) THEN << >>
  ELSE LET c == t[i] IN
       (IF c < 128 THEN << c >>
        ELSE IF c < 2048 THEN << 192 + (c \div 64), 128 + (c % 64) >>
        ELSE IF c < 65536
          THEN << 224 + (c \div 4096), 128 + ((c \div 64) % 64), 128 + (c % 64) >>
        ELSE << 240 + (c \div 262144), 128 + ((c \div 4096) % 64),
                128 + ((c \div 64) % 64), 128 + (c % 64) >>)
       \o Utf8Encode(t, i + 1)

RECURSIVE b64encode(_, _)
b64encode(b, i) ==
  IF i > Len(b) THEN << >>
  ELSE LET n  == Len(b) - i + 1
           b0 == b[i]
           b1 == IF n >= 2 THEN b[i + 1] ELSE 0
           b2 == IF n >= 3 THEN b[i + 2] ELSE 0
       IN << B64Char(b0 \div 4),
             B64Char((b0 % 4) * 16 + (b1 \div 16)),
             IF n >= 2 THEN B64Char((b1 % 16) * 4 + (b2 \div 64)) ELSE Ord("="),
             IF n >= 3 THEN B64Char(b2 % 64) ELSE Ord("=") >>
          \o b64encode(b, i + 3)

Encode(text) == b64encode(Utf8Encode(text, 1), 1)

(***************************************************************************)
(* Redaction engine: utils.redact_sensitive_data                           *)
(***************************************************************************)

\* The marker literal.
REDACTED == Str(<< "[", "R", "E", "D", "A", "C", "T", "E", "D", "]" >>)

\* No upper limit of a repetition.
Unbounded == -1

\* A pattern is a sequence of items: a character class repeated greedily
\* between min and max times, or the word-boundary assertion \b.
Cls(set, min, max) == [wb |-> FALSE, set |-> set, min |-> min, max |-> max]
WB == [wb |-> TRUE, set |-> {}, min |-> 0, max |-> 0]

Opt(set)  == Cls(set, 0, 1)
Lit(c)    == {Ord(c)}

\* \+?1?[-.\s]?\(?\d{3}\)?[-.\s]?\d{3}[-.\s]?\d{4}
FullPhonePattern ==
  << Opt(Lit("+")), Opt(Lit("1")), Opt(PhoneSep), Opt(Lit("(")),
     Cls(Digit, 3, 3), Opt(Lit(")")), Opt(PhoneSep), Cls(Digit, 3, 3),
     Opt(PhoneSep), Cls(Digit, 4, 4) >>

\* \d{3}[-.\s]\d{4}
ShortPhonePattern ==
  << Cls(Digit, 3, 3), Cls(PhoneSep, 1, 1), Cls(Digit, 4, 4) >>

\* \b\d{1,3}\.\d{1,3}\.\d{1,3}\.\d{1,3}\b
IpPattern ==
  << WB, Cls(Digit, 1, 3), Cls(Lit("."), 1, 1), Cls(Digit, 1, 3),
     Cls(Lit("."), 1, 1), Cls(Digit, 1, 3), Cls(Lit("."), 1, 1),
     Cls(Digit, 1, 3), WB >>

\* \b[A-Za-z0-9._%+-]+@[A-Za-z0-9.-]+\.[A-Z|a-z]{2,}\b
EmailPattern ==
  << WB,
     Cls(Alnum \cup {Ord("."), Ord("_"), Ord("%"), Ord("+"), Ord("-")},
         1, Unbounded),
     Cls(Lit("@"), 1, 1),
     Cls(Alnum \cup {Ord("."), Ord("-")}, 1, Unbounded),
     Cls(Lit("."), 1, 1),
     Cls(Upper \cup Lower \cup {Ord("|")}, 2, Unbounded),
     WB >>

\* \b\d{3}-\d{2}-\d{4}\b
SsnPattern ==
  << WB, Cls(Digit, 3, 3), Cls(Lit("-"), 1, 1), Cls(Digit, 2, 2),
     Cls(Lit("-"), 1, 1), Cls(Digit, 4, 4), WB >>

IsWordAt(s, i) == i >= 1 /\ i <= Len(s) /\ s[i] \in WordChar

\* \b holds before position i when exactly one neighbour is a word character.
AtBoundary(s, i) == IsWordAt(s, i - 1) # IsWordAt(s, i)

\* Number of consecutive characters of the class from position i, at most max.
RECURSIVE Run(_, _, _, _)
Run(s, i, set, max) ==
  IF max = 0 \/ i > Len(s) \/ s[i] \notin set THEN 0
  ELSE 1 + Run(s, i + 1, set, IF max = Unbounded THEN max ELSE max - 1)

\* The backtracking matcher: the position after the match of items k.. of
\* the pattern anchored at position i, or 0 when there is none.  A greedy
\* repetition takes as many characters as it can and gives them back one
\* at a time.
RECURSIVE MatchAt(_, _, _, _)
RECURSIVE TryCount(_, _, _, _, _)
MatchAt(pat, k, s, i) ==
  IF k > Len(pat) THEN i
  ELSE IF pat[k].wb
    THEN IF AtBoundary(s, i) THEN MatchAt(pat, k + 1, s, i) ELSE 0
  ELSE TryCount(pat, k, s, i, Run(s, i, pat[k].set, pat[k].max))

TryCount(pat, k, s, i, c) ==
  IF c < pat[k].min THEN 0
  ELSE LET e == MatchAt(pat, k + 1, s, i + c) IN
       IF e # 0 THEN e ELSE TryCount(pat, k, s, i, c - 1)

\* re.sub(pattern, "[REDACTED]", s): leftmost matches, left to right,
\* without overlap.
RECURSIVE Sub(_, _, _)
Sub(pat, s, i) ==
  IF i > Len(s) THEN << >>
  ELSE LET e == MatchAt(pat, 1, s, i) IN
       IF e # 0 THEN REDACTED \o Sub(pat, s, e)
       ELSE << s[i] >> \o Sub(pat, s, i + 1)

\* Mutant: a sixth pattern, [A-Z]+, matches the letters of the marker.
redact_matching_marker(text) ==
  LET phone1 == Sub(FullPhonePattern, text, 1)
      phone2 == Sub(ShortPhonePattern, phone1, 1)
      ip     == Sub(IpPattern, phone2, 1)
      email  == Sub(EmailPattern, ip, 1)
      ssn    == Sub(SsnPattern, email, 1)
  IN  Sub(<< Cls(Upper, 1, Unbounded) >>, ssn, 1)

\* Mutant: the result is returned without its blanks.
redact_dropping_blanks(text) ==
  LET phone1 == Sub(FullPhonePattern, text, 1)
      phone2 == Sub(ShortPhonePattern, phone1, 1)
      ip     == Sub(IpPattern, phone2, 1)
      email  == Sub(EmailPattern, ip, 1)
      ssn    == Sub(SsnPattern, email, 1)
  IN  SelectSeq(ssn, LAMBDA c : c # Ord(" "))

\* Mutant: the email pattern is applied first.
redact_email_first(text) ==
  LET email  == Sub(EmailPattern, text, 1)
      phone1 == Sub(FullPhonePattern, email, 1)
      phone2 == Sub(ShortPhonePattern, phone1, 1)
      ip     == Sub(IpPattern, phone2, 1)
  IN  Sub(SsnPattern, ip, 1)

\* Mutant: one more pattern, \d+, is applied at the end.
redact_every_number(text) ==
  LET phone1 == Sub(FullPhonePattern, text, 1)
      phone2 == Sub(ShortPhonePattern, phone1, 1)
      ip     == Sub(IpPattern, phone2, 1)
      email  == Sub(EmailPattern, ip, 1)
      ssn    == Sub(SsnPattern, email, 1)
  IN  Sub(<< Cls(Digit, 1, Unbounded) >>, ssn, 1)

redact_sensitive_data(text) ==
  LET phone1 == Sub(FullPhonePattern, text, 1)
      phone2 == Sub(ShortPhonePattern, phone1, 1)
      ip     == Sub(IpPattern, phone2, 1)
      email  == Sub(EmailPattern, ip, 1)
  IN  Sub(SsnPattern, email, 1)

(***************************************************************************)
(* Push envelopes                                                          *)
(***************************************************************************)

\* JSON values.  An object is a record of its members; a string is given by
\* its characters.  Attribute maps hold TLA+ strings (Dict[str, str]).
JNull      == [t |-> "null"]
JNum(n)    == [t |-> "num", n |-> n]
JChars(cs) == [t |-> "str", c |-> cs]
JList(l)   == [t |-> "list", l |-> l]
JObj(f)    == [t |-> "obj", f |-> f]
NotJson    == [t |-> "notjson"]
EmptyObj   == JObj([k \in {} |-> JNull])

\* Python truth value of a parsed JSON value ("if not message").
Falsy(j) ==
  CASE j.t = "null" -> TRUE
    [] j.t = "num"  -> j.n = 0
    [] j.t = "str"  -> Len(j.c) = 0
    [] j.t = "list" -> Len(j.l) = 0
    [] j.t = "obj"  -> DOMAIN j.f = {}
    [] OTHER        -> FALSE

\* dict.get(key, default) of an object.
Get(j, key, default) == IF key \in DOMAIN j.f THEN j.f[key] ELSE default

\* The error codes of response.ErrorCodes.
INVALID_ENVELOPE   == "INVALID_ENVELOPE"
MISSING_MESSAGE    == "MISSING_MESSAGE"
INVALID_BASE64     == "INVALID_BASE64"
MISSING_ATTRIBUTES == "MISSING_ATTRIBUTES"
PROCESSING_ERROR   == "PROCESSING_ERROR"

\* The local variables of one invocation of process().
NoLocals ==
  [text |-> << >>, tenant_id |-> "", log_id |-> "", source |-> "",
   content_hash |-> "", correlation_id |-> ""]

\* Mutant: a message without data is rejected like one whose data cannot
\* be decoded.
DecodeDataRequired(data) ==
  IF data.t # "str" \/ Len(data.c) = 0 THEN [ok |-> FALSE, text |-> << >>]
  ELSE LET raw == b64decode(data.c) IN
       IF raw.ok THEN Utf8Decode(raw.bytes, 1, << >>)
       ELSE [ok |-> FALSE, text |-> << >>]

\* base64.b64decode(data_b64).decode("utf-8"); any exception is caught.
\* A value that is not a string makes b64decode raise a TypeError.
DecodeData(data) ==
  IF data.t # "str" THEN [ok |-> FALSE, text |-> << >>]
  ELSE LET raw == b64decode(data.c) IN
       IF raw.ok THEN Utf8Decode(raw.bytes, 1, << >>)
       ELSE [ok |-> FALSE, text |-> << >>]

Parsed(kind, code, locals) == [kind |-> kind, code |-> code, loc |-> locals]

\* Mutant: the check rejects only when both attributes are missing.
ExtractAttributesBothMissing(text, attrs) ==
  LET tenant_id == Get(attrs, "tenant_id", "")
      log_id    == Get(attrs, "log_id", "")
  IN IF tenant_id = "" /\ log_id = ""
       THEN [kind |-> "bad", code |-> MISSING_ATTRIBUTES, loc |-> NoLocals]
       ELSE [kind |-> "ok", code |-> "",
             loc |-> [text |-> text, tenant_id |-> tenant_id,
                      log_id |-> log_id,
                      source |-> Get(attrs, "source", "unknown"),
                      content_hash |-> Get(attrs, "content_hash", ""),
                      correlation_id |-> Get(attrs, "correlation_id", "")]]

\* Mutant: the optional attributes default to the empty string.
ExtractAttributesNoDefaults(text, attrs) ==
  LET tenant_id == Get(attrs, "tenant_id", "")
      log_id    == Get(attrs, "log_id", "")
  IN IF tenant_id = "" \/ log_id = ""
       THEN [kind |-> "bad", code |-> MISSING_ATTRIBUTES, loc |-> NoLocals]
       ELSE [kind |-> "ok", code |-> "",
             loc |-> [text |-> text, tenant_id |-> tenant_id,
                      log_id |-> log_id,
                      source |-> Get(attrs, "source", ""),
                      content_hash |-> Get(attrs, "content_hash", ""),
                      correlation_id |-> Get(attrs, "correlation_id", "")]]

\* The attribute part of the decoding, for an object of attributes
\* (attrs.get of an absent attribute gives None, which is empty here).
ExtractAttributes(text, attrs) ==
  LET tenant_id == Get(attrs, "tenant_id", "")
      log_id    == Get(attrs, "log_id", "")
  IN IF tenant_id = "" \/ log_id = ""
       THEN Parsed("bad", MISSING_ATTRIBUTES, NoLocals)
       ELSE Parsed("ok", "",
              [text |-> text, tenant_id |-> tenant_id, log_id |-> log_id,
               source |-> Get(attrs, "source", "unknown"),
               content_hash |-> Get(attrs, "content_hash", ""),
               correlation_id |-> Get(attrs, "correlation_id", "")])

\* Mutant: the required attributes are checked before the payload is
\* decoded.
ParseEnvelopeAttributesFirst(body) ==
  IF body.t = "notjson" THEN Parsed("bad", INVALID_ENVELOPE, NoLocals)
  ELSE IF body.t # "obj" THEN Parsed("raise", "", NoLocals)
  ELSE LET message == Get(body, "message", JNull) IN
    IF Falsy(message) THEN Parsed("bad", MISSING_MESSAGE, NoLocals)
    ELSE IF message.t # "obj" THEN Parsed("raise", "", NoLocals)
    ELSE LET attrs == Get(message, "attributes", EmptyObj) IN
      IF attrs.t # "obj" THEN Parsed("raise", "", NoLocals)
      ELSE IF ExtractAttributes(<< >>, attrs).kind = "bad"
        THEN Parsed("bad", MISSING_ATTRIBUTES, NoLocals)
      ELSE LET dec == DecodeData(Get(message, "data", JChars(<< >>))) IN
        IF ~dec.ok THEN Parsed("bad", INVALID_BASE64, NoLocals)
        ELSE ExtractAttributes(dec.text, attrs)

\* The decoding and validation of process(): "ok" with the locals, "bad"
\* with the code of a 400 answer, or "raise" when a .get on a value that is
\* not an object raises AttributeError outside every try block.
ParseEnvelope(body) ==
  IF body.t = "notjson" THEN Parsed("bad", INVALID_ENVELOPE, NoLocals)
  ELSE IF body.t # "obj" THEN Parsed("raise", "", NoLocals)
  ELSE LET message == Get(body, "message", JNull) IN
    IF Falsy(message) THEN Parsed("bad", MISSING_MESSAGE, NoLocals)
    ELSE IF message.t # "obj" THEN Parsed("raise", "", NoLocals)
    ELSE LET dec == DecodeData(Get(message, "data", JChars(<< >>))) IN
      IF ~dec.ok THEN Parsed("bad", INVALID_BASE64, NoLocals)
      ELSE LET attrs == Get(message, "attributes", EmptyObj) IN
        IF attrs.t # "obj" THEN Parsed("raise", "", NoLocals)
        ELSE ExtractAttributes(dec.text, attrs)

\* The envelope the queue pushes for a published message.
Envelope(data, attrs) ==
  JObj([message |-> JObj([data |-> data, attributes |-> JObj(attrs)])])

(***************************************************************************)
(* The deliveries of the model                                             *)
(***************************************************************************)

TextHi    == Str(<< "h", "i" >>)
TextMail  == Str(<< "a", "@", "b", ".", "c", "o" >>)

\* MAX_TEXT_LENGTH of the gateway (config.py: 5000 characters), scaled down.
MaxTextLength == 8

\* Texts sent to the gateway: a blank; texts of MaxTextLength characters and
\* of one more, starting with a two-byte character; U+FFFD, which decoding
\* with errors="replace" gives for an invalid byte.
TextBlank     == Str(<< " " >>)
TextAtLimit   == [k \in 1..MaxTextLength |-> IF k = 1 THEN 233 ELSE Ord("x")]
TextOverLimit == TextAtLimit \o Str(<< "x" >>)
TextReplaced  == << 65533 >>

GatewayTexts == { TextHi, TextMail, TextBlank, TextAtLimit, TextReplaced }

AttrsA == [tenant_id |-> "t1", log_id |-> "l1", source |-> "json_upload",
           content_hash |-> "hA", correlation_id |-> "c1"]
AttrsB == [tenant_id |-> "t1", log_id |-> "l1", source |-> "text_upload",
           content_hash |-> "hB", correlation_id |-> "c2"]

\* The request bodies the queue can push.  1..7 and 22..24 pass validation.
Bodies ==
  << \* 1: version A of (t1, l1)
     Envelope(JChars(Encode(TextHi)), AttrsA),
     \* 2: version B of (t1, l1), a text that redaction changes
     Envelope(JChars(Encode(TextMail)), AttrsB),
     \* 3: the fingerprint of A with another payload
     Envelope(JChars(Encode(TextMail)),
              [AttrsA EXCEPT !.correlation_id = "c3"]),
     \* 4: only the mandatory attributes
     Envelope(JChars(Encode(TextHi)), [tenant_id |-> "t1", log_id |-> "l1"]),
     \* 5: no data member
     JObj([message |-> JObj([attributes |-> JObj(AttrsB)])]),
     \* 6: version A of another tenant
     Envelope(JChars(Encode(TextHi)), [AttrsA EXCEPT !.tenant_id = "t2"]),
     \* 7: version A of another log id
     Envelope(JChars(Encode(TextHi)), [AttrsA EXCEPT !.log_id = "l2"]),
     \* 8: not JSON
     NotJson,
     \* 9: a JSON array
     JList(<< >>),
     \* 10: no message member
     JObj([subscription |-> JChars(Str(<< "s" >>))]),
     \* 11: message is an empty array
     JObj([message |-> JList(<< >>)]),
     \* 12: message is a non-empty string
     JObj([message |-> JChars(Str(<< "m" >>))]),
     \* 13: data of one base64 character
     Envelope(JChars(Str(<< "a" >>)), AttrsA),
     \* 14: data decoding to the byte 0xFF, which is not UTF-8
     Envelope(JChars(Str(<< "/", "w", "=", "=" >>)), AttrsA),
     \* 15: data is a number
     Envelope(JNum(5), AttrsA),
     \* 16: no tenant_id
     Envelope(JChars(Encode(TextHi)), [log_id |-> "l1", content_hash |-> "hA"]),
     \* 17: empty log_id
     Envelope(JChars(Encode(TextHi)), [AttrsA EXCEPT !.log_id = ""]),
     \* 18: no attributes member
     JObj([message |-> JObj([data |-> JChars(Encode(TextHi))])]),
     \* 19: attributes is null
     JObj([message |-> JObj([data |-> JChars(Encode(TextHi)),
                             attributes |-> JNull])]),
     \* 20: attributes is a string
     JObj([message |-> JObj([data |-> JChars(Encode(TextHi)),
                             attributes |-> JChars(Str(<< "x" >>))])]),
     \* 21: undecodable data and no attributes
     JObj([message |-> JObj([data |-> JChars(Str(<< "a" >>))])]),
     \* 22: data of characters outside the base64 alphabet only
     Envelope(JChars(Str(<< "!", "!", "!", "!" >>)), AttrsA),
     \* 23: an empty content_hash
     Envelope(JChars(Encode(TextMail)), [AttrsB EXCEPT !.content_hash = ""]),
     \* 24: data is the empty string
     Envelope(JChars(<< >>), [AttrsB EXCEPT !.log_id = "l2"])
  >>

BodyIds == 1..Len(Bodies)

(***************************************************************************)
(* Bounds                                                                  *)
(***************************************************************************)

\* Invocations of process() in flight at the same time.
MaxInv == 2

\* Deliveries the queue makes in one run.
MaxDeliveries == 3

\* SLEEP_PER_CHAR, in hundredths of a second.
SleepPerChar == 5

Inv == 1..MaxInv

\* The envelopes of one run: versions and duplicates of one key; missing
\* optional parts; other keys; malformed envelopes; no fingerprint.
Scenarios ==
  { {1, 2, 3}, {1, 4, 5, 22}, {1, 6, 7}, {1} \cup (8..21), {4, 23}, {5, 24} }

(***************************************************************************)
(* State                                                                   *)
(***************************************************************************)

VARIABLES
  store,      \* Firestore: path <<tenant_id, log_id>> -> document
  db,         \* the module-level client of get_db() has been created
  now,        \* the clock, in hundredths of a second
  pc,         \* where each invocation of process() stands
  req,        \* the request body of each invocation (an index of Bodies)
  loc,        \* the local variables of each invocation
  wake,       \* the time at which the sleep of each invocation ends
  resp,       \* the response of each invocation
  hist,       \* history of each invocation (not program state): its number,
              \* whether another invocation ran during it, the document at
              \* its path when it arrived (seen) and when it read (got), the
              \* deliveries completed before it (prev), its store reads and
              \* writes, the store call that raised ("read", "write"), what
              \* it logged, and the store when it arrived (found)
  log,        \* the completed deliveries, in order of completion (history),
              \* each with the store when it returned (left)
  writes,     \* the store writes, in order (history): the invocation, its
              \* request, the path and the document, what its read gave, and
              \* the number of deliveries made when it wrote (at)
  delivered,  \* number of deliveries so far
  feed,       \* the envelopes of this run
  arg,        \* the text a call of redact_sensitive_data is given
  ret,        \* what the call returned: << >> before it returns
  publisher,  \* the module-level client of get_publisher() has been created
  uuids,      \* number of uuid4() calls of the gateway so far
  replies,    \* the requests the gateway has answered, with its responses
              \* and what was set to raise in the publish step (fault)
  topic,      \* the messages accepted by publish(): data, attributes, the
              \* state of the future, and the request they come from (by)
  glog,       \* what the logger of the gateway has written
  pushes,     \* the deliveries of published messages to the worker (history):
              \* the message, the answer, and the store the delivery left
  REQUESTS_TOTAL,   \* metrics.py: the request counter
  LAST_REQUEST_AT,  \* metrics.py: << >> for None, or << time >>
  clock,      \* time.time() and datetime.now() of the metrics module
  calls,      \* the paths record_request was called with (history)
  report      \* what the last call of snapshot() returned, << >> before it

vars == << store, db, now, pc, req, loc, wake, resp, hist, log, writes,
           delivered, feed, arg, ret, publisher, uuids, replies, topic, glog,
           pushes, REQUESTS_TOTAL, LAST_REQUEST_AT, clock, calls, report >>

\* The state of the metrics module.
metrics == << REQUESTS_TOTAL, LAST_REQUEST_AT, clock, calls, report >>

\* START_TIME = time.time(), taken when the module is loaded.
START_TIME == 0

\* The metrics module as it is loaded.
MetricsIdle ==
  /\ REQUESTS_TOTAL = 0
  /\ LAST_REQUEST_AT = << >>
  /\ clock = START_TIME
  /\ calls = << >>
  /\ report = << >>

\* The state of the gateway and of its topic.
gateway == << publisher, uuids, replies, topic, glog, pushes >>

\* The gateway has received nothing.
GatewayIdle ==
  /\ publisher = FALSE
  /\ uuids = 0
  /\ replies = << >>
  /\ topic = << >>
  /\ glog = << >>
  /\ pushes = << >>

\* The state of a call of redact_sensitive_data on its own.
call == << arg, ret >>

\* JSONResponse(content = {success, data: {status, log_id, reason},
\* error: {code, message}}, status_code).  raised marks the answer the
\* server gives for an exception that left the handler.
Response(status, success, result, reason, code, message, log_id) ==
  [status |-> status, success |-> success, result |-> result,
   reason |-> reason, code |-> code, message |-> message,
   log_id |-> log_id, raised |-> FALSE]

NoResponse == Response(0, FALSE, "", "", "", "", "")

Rejected(code, message) == Response(400, FALSE, "", "", code, message, "")

ValidationMessage(code) ==
  CASE code = INVALID_ENVELOPE   -> "invalid JSON envelope"
    [] code = MISSING_MESSAGE    -> "missing 'message' in envelope"
    [] code = INVALID_BASE64     -> "failed to decode message data"
    [] code = MISSING_ATTRIBUTES -> "missing tenant_id or log_id"

SkippedResponse(log_id) ==
  Response(200, TRUE, "skipped", "duplicate", "", "", log_id)

ProcessedResponse(log_id) ==
  Response(200, TRUE, "processed", "", "", "", log_id)

\* Mutant: the except branch answers with the terminal status.
ProcessingErrorTerminal ==
  Response(400, FALSE, "", "", PROCESSING_ERROR,
           "failed to persist processed log", "")

ProcessingErrorResponse ==
  Response(500, FALSE, "", "", PROCESSING_ERROR,
           "failed to persist processed log", "")

\* An exception that leaves process(): the server answers 500.
UncaughtResponse == [NoResponse EXCEPT !.status = 500, !.raised = TRUE]

NoHistory ==
  [id |-> 0, overlapped |-> FALSE, seen |-> << >>, got |-> << >>,
   prev |-> 0, reads |-> 0, writes |-> 0, failed |-> "", logged |-> << >>,
   found |-> [r \in {} |-> 0]]

\* A record written by the logger: its level, its message, and the
\* identifiers of the delivery that the message or its extra fields carry
\* ("" for one that is not there).
LogRecord(level, event, tenant_id, log_id, correlation_id) ==
  [level |-> level, event |-> event, tenant_id |-> tenant_id,
   log_id |-> log_id, correlation_id |-> correlation_id]

\* The logger calls of the validation failures (lines 115, 131, 149, 171):
\* fixed messages, except for missing attributes, where the attributes of
\* the message are printed.
ValidationLog(body, code) ==
  IF code = MISSING_ATTRIBUTES
    THEN LET attrs == Get(body.f.message, "attributes", EmptyObj) IN
           LogRecord("error", "missing tenant_id or log_id",
                     Get(attrs, "tenant_id", ""), Get(attrs, "log_id", ""),
                     Get(attrs, "correlation_id", ""))
    ELSE LogRecord("error", ValidationMessage(code), "", "", "")

\* logger.exception("firestore operation failed",
\*                  extra={"tenant_id": tenant_id, "log_id": log_id})
FirestoreFailedLog(l) ==
  LogRecord("error", "firestore operation failed", l.tenant_id, l.log_id, "")

SkipDuplicateLog(l) ==
  LogRecord("info", "skip duplicate", l.tenant_id, l.log_id, "")

ProcessingLog(l) ==
  LogRecord("info", "processing", l.tenant_id, l.log_id, l.correlation_id)

StoredLog(l) ==
  LogRecord("info", "stored", l.tenant_id, l.log_id, l.correlation_id)

\* The history of an invocation after it has logged the records.
Logged(h, records) == [h EXCEPT !.logged = @ \o records]

\* Mutant: the path is built from the log id alone.
DocRefByLogId(l) == << "", l.log_id >>

\* doc_ref: tenants/{tenant_id}/processed_logs/{log_id}
DocRef(l) == << l.tenant_id, l.log_id >>

Exists(st, ref) == ref \in DOMAIN st

\* The document at a path as a sequence of length 0 or 1.
Snapshot(st, ref) == IF Exists(st, ref) THEN << st[ref] >> ELSE << >>

\* Mutant: doc_ref.create(doc_data), which leaves an existing document.
SetCreateOnly(st, ref, doc) ==
  [r \in DOMAIN st \cup {ref} |-> IF r \in DOMAIN st THEN st[r] ELSE doc]

\* Mutant: the write appends the text to the text already stored.
SetAppending(st, ref, doc) ==
  [r \in DOMAIN st \cup {ref} |->
     IF r # ref THEN st[r]
     ELSE IF ref \in DOMAIN st
       THEN [doc EXCEPT !.original_text = st[ref].original_text \o @]
     ELSE doc]

\* doc_ref.set(doc_data): the document is created or replaced as a whole.
Set(st, ref, doc) ==
  [r \in DOMAIN st \cup {ref} |-> IF r = ref THEN doc ELSE st[r]]

\* The texts the deliveries of the model carry.
PayloadTexts ==
  { ParseEnvelope(Bodies[b]).loc.text : b \in 1..Len(Bodies) }
    \cup GatewayTexts

\* redacted_text = redact_sensitive_data(text), for each of these texts.
redacted_text == [text \in PayloadTexts |-> redact_sensitive_data(text)]

\* Mutant: the text is stored without redaction.
DocDataUnredacted(l, time) ==
  [source |-> l.source,
   original_text |-> l.text,
   modified_data |-> l.text,
   processed_at |-> time,
   content_hash |-> l.content_hash,
   correlation_id |-> l.correlation_id]

\* doc_data of process().
DocData(l, time) ==
  [source |-> l.source,
   original_text |-> l.text,
   modified_data |-> redacted_text[l.text],
   processed_at |-> time,
   content_hash |-> l.content_hash,
   correlation_id |-> l.correlation_id]

Active(i) == pc[i] \notin {"idle", "done"}

Init ==
  /\ store = [r \in {} |-> 0]
  /\ db = FALSE
  /\ now = 0
  /\ pc = [i \in Inv |-> "idle"]
  /\ req = [i \in Inv |-> 0]
  /\ loc = [i \in Inv |-> NoLocals]
  /\ wake = [i \in Inv |-> 0]
  /\ resp = [i \in Inv |-> NoResponse]
  /\ hist = [i \in Inv |-> NoHistory]
  /\ log = << >>
  /\ writes = << >>
  /\ delivered = 0
  /\ feed \in Scenarios
  /\ arg = << >>
  /\ ret = << >>
  /\ GatewayIdle
  /\ MetricsIdle

(***************************************************************************)
(* The queue and the handler                                               *)
(***************************************************************************)

\* The outcome of decoding each request body.
Decoded == [b \in BodyIds |-> ParseEnvelope(Bodies[b])]

\* The path a request body addresses, once decoded.
KeyOf(b) == DocRef(Decoded[b].loc)

\* Invocation i returns response r: the answer reaches the queue.
Return(i, r, h) ==
  /\ pc' = [pc EXCEPT ![i] = "done"]
  /\ resp' = [resp EXCEPT ![i] = r]
  /\ hist' = [hist EXCEPT ![i] = h]
  /\ log' = Append(log, [id |-> h.id, body |-> req[i], resp |-> r,
                         overlapped |-> h.overlapped, seen |-> h.seen,
                         writes |-> h.writes, failed |-> h.failed,
                         logged |-> h.logged,
                         found |-> h.found, left |-> store,
                         reads |-> h.reads, got |-> h.got])

\* The queue pushes an envelope; a new invocation of process() starts, in
\* the first slot that no running invocation occupies.
Deliver(i, b) ==
  /\ ~Active(i)
  /\ \A j \in Inv : j < i => Active(j)
  /\ delivered < MaxDeliveries
  /\ b \in feed
  /\ pc' = [pc EXCEPT ![i] = "received"]
  /\ req' = [req EXCEPT ![i] = b]
  /\ delivered' = delivered + 1
  /\ hist' = [j \in Inv |->
               IF j = i
                 THEN [NoHistory EXCEPT
                         !.id = delivered + 1,
                         !.overlapped = \E k \in Inv : Active(k),
                         !.seen = Snapshot(store, KeyOf(b)),
                         !.prev = Len(log),
                         !.found = store]
               ELSE IF Active(j) THEN [hist[j] EXCEPT !.overlapped = TRUE]
               ELSE hist[j]]
  /\ loc' = [loc EXCEPT ![i] = NoLocals]
  /\ wake' = [wake EXCEPT ![i] = 0]
  /\ resp' = [resp EXCEPT ![i] = NoResponse]
  /\ UNCHANGED << store, db, now, log, writes, feed, call,
                  gateway, metrics >>

\* Mutant: a sleep that blocks the event loop (time.sleep), so that no
\* other invocation runs while one sleeps.
DecodeWhileNoneSleeps(i) ==
  /\ \A k \in Inv : pc[k] # "sleeping"
  /\ pc[i] = "received"
  /\ LET p == Decoded[req[i]] IN
       CASE p.kind = "ok" ->
              /\ pc' = [pc EXCEPT ![i] = "decoded"]
              /\ loc' = [loc EXCEPT ![i] = p.loc]
              /\ UNCHANGED << resp, hist, log >>
         [] p.kind = "bad" ->
              /\ Return(i, Rejected(p.code, ValidationMessage(p.code)), hist[i])
              /\ UNCHANGED loc
         [] p.kind = "raise" ->
              /\ Return(i, UncaughtResponse, hist[i])
              /\ UNCHANGED loc
  /\ UNCHANGED << store, db, now, req, wake, writes, delivered, feed, call,
                  gateway, metrics >>

\* process(), lines 112-182: parse the body, decode the data, extract and
\* validate the attributes; a validation failure is logged and answered.
Decode(i) ==
  /\ pc[i] = "received"
  /\ LET p == Decoded[req[i]] IN
       CASE p.kind = "ok" ->
              /\ pc' = [pc EXCEPT ![i] = "decoded"]
              /\ loc' = [loc EXCEPT ![i] = p.loc]
              /\ UNCHANGED << resp, hist, log >>
         [] p.kind = "bad" ->
              /\ Return(i, Rejected(p.code, ValidationMessage(p.code)),
                        Logged(hist[i],
                               << ValidationLog(Bodies[req[i]], p.code) >>))
              /\ UNCHANGED loc
         [] p.kind = "raise" ->
              /\ Return(i, UncaughtResponse, hist[i])
              /\ UNCHANGED loc
  /\ UNCHANGED << store, db, now, req, wake, writes, delivered, feed, call,
                  gateway, metrics >>

\* Mutant: the gate compares the wrong field of the stored document.
IsDuplicateWrongField(existing, content_hash) ==
  /\ Len(existing) = 1
  /\ existing[1].correlation_id = content_hash

\* Mutant: the gate skips whenever a document exists.
IsDuplicateAnyRecord(existing, content_hash) == Len(existing) = 1

\* The duplicate test of the idempotency gate on what doc_ref.get() gave.
IsDuplicate(existing, content_hash) ==
  /\ Len(existing) = 1
  /\ existing[1].content_hash = content_hash

\* get_db() logs when it creates the client.
GetDbLog ==
  IF db THEN << >>
  ELSE << LogRecord("info", "initialized firestore client", "", "", "") >>

\* Mutant: a delivery is a duplicate only when its text is the stored text
\* as well.
CheckComparesText(i) ==
  /\ pc[i] = "decoded"
  /\ db' = TRUE
  /\ LET l == loc[i]
         existing == Snapshot(store, DocRef(l))
         h == IF l.content_hash # ""
                THEN [hist[i] EXCEPT !.reads = @ + 1, !.got = existing]
                ELSE hist[i]
     IN IF /\ l.content_hash # ""
           /\ IsDuplicate(existing, l.content_hash)
           /\ existing[1].original_text = l.text
          THEN /\ Return(i, SkippedResponse(l.log_id), h)
               /\ UNCHANGED wake
          ELSE /\ pc' = [pc EXCEPT ![i] = "sleeping"]
               /\ wake' = [wake EXCEPT ![i] = now + Len(l.text) * SleepPerChar]
               /\ hist' = [hist EXCEPT ![i] = h]
               /\ UNCHANGED << resp, log >>
  /\ UNCHANGED << store, now, req, loc, writes, delivered, feed, call,
                  gateway, metrics >>

\* Mutant: the idempotency check is made without a content_hash as well.
CheckUnguarded(i) ==
  /\ pc[i] = "decoded"
  /\ db' = TRUE
  /\ LET l == loc[i]
         existing == Snapshot(store, DocRef(l))
         h == [hist[i] EXCEPT !.reads = @ + 1, !.got = existing]
     IN IF Len(existing) = 1 /\ existing[1].content_hash = l.content_hash
          THEN /\ Return(i, SkippedResponse(l.log_id), h)
               /\ UNCHANGED wake
          ELSE /\ pc' = [pc EXCEPT ![i] = "sleeping"]
               /\ wake' = [wake EXCEPT ![i] = now + Len(l.text) * SleepPerChar]
               /\ hist' = [hist EXCEPT ![i] = h]
               /\ UNCHANGED << resp, log >>
  /\ UNCHANGED << store, now, req, loc, writes, delivered, feed, call,
                  gateway, metrics >>

\* Mutant: the sleep lasts one unit whatever the length of the text.
CheckFixedSleep(i) ==
  /\ pc[i] = "decoded"
  /\ db' = TRUE
  /\ LET l == loc[i]
         existing == Snapshot(store, DocRef(l))
         h == IF l.content_hash # ""
                THEN [hist[i] EXCEPT !.reads = @ + 1, !.got = existing]
                ELSE hist[i]
     IN IF /\ l.content_hash # ""
           /\ Len(existing) = 1
           /\ existing[1].content_hash = l.content_hash
          THEN /\ Return(i, SkippedResponse(l.log_id), h)
               /\ UNCHANGED wake
          ELSE /\ pc' = [pc EXCEPT ![i] = "sleeping"]
               /\ wake' = [wake EXCEPT ![i] = now + SleepPerChar]
               /\ hist' = [hist EXCEPT ![i] = h]
               /\ UNCHANGED << resp, log >>
  /\ UNCHANGED << store, now, req, loc, writes, delivered, feed, call,
                  gateway, metrics >>

\* process(), lines 185-221: get_db(), the idempotency check when there is
\* a content_hash, then the start of the sleep.
Check(i) ==
  /\ pc[i] = "decoded"
  /\ db' = TRUE
  /\ LET l == loc[i]
         existing == Snapshot(store, DocRef(l))
         h == Logged(IF l.content_hash # ""
                       THEN [hist[i] EXCEPT !.reads = @ + 1, !.got = existing]
                       ELSE hist[i],
                     GetDbLog)
     IN IF l.content_hash # "" /\ IsDuplicate(existing, l.content_hash)
          THEN /\ Return(i, SkippedResponse(l.log_id),
                         Logged(h, << SkipDuplicateLog(l) >>))
               /\ UNCHANGED wake
          ELSE /\ pc' = [pc EXCEPT ![i] = "sleeping"]
               /\ wake' = [wake EXCEPT ![i] = now + Len(l.text) * SleepPerChar]
               /\ hist' = [hist EXCEPT ![i] = Logged(h, << ProcessingLog(l) >>)]
               /\ UNCHANGED << resp, log >>
  /\ UNCHANGED << store, now, req, loc, writes, delivered, feed, call,
                  gateway, metrics >>

\* Mutant: a read that raises is taken for a duplicate and answered 200.
CheckFailSkipped(i) ==
  /\ pc[i] = "decoded"
  /\ loc[i].content_hash # ""
  /\ db' = TRUE
  /\ Return(i, SkippedResponse(loc[i].log_id),
            [hist[i] EXCEPT !.reads = @ + 1, !.failed = "read"])
  /\ UNCHANGED << store, now, req, loc, wake, writes, delivered, feed, call,
                  gateway, metrics >>

\* doc_ref.get() raises: the except branch logs and answers 500.
CheckFail(i) ==
  /\ pc[i] = "decoded"
  /\ loc[i].content_hash # ""
  /\ db' = TRUE
  /\ Return(i, ProcessingErrorResponse,
            Logged([hist[i] EXCEPT !.reads = @ + 1, !.failed = "read"],
                   GetDbLog \o << FirestoreFailedLog(loc[i]) >>))
  /\ UNCHANGED << store, now, req, loc, wake, writes, delivered, feed, call,
                  gateway, metrics >>

\* The ends of the sleeps that lie ahead.
Deadlines == { wake[i] : i \in { j \in Inv : pc[j] = "sleeping" /\ wake[j] > now } }

\* Time passes while an invocation is suspended in asyncio.sleep: the
\* clock moves to the next end of a sleep.
Tick ==
  /\ Deadlines # {}
  /\ now' = CHOOSE t \in Deadlines : \A u \in Deadlines : t <= u
  /\ UNCHANGED << store, db, pc, req, loc, wake, resp, hist, log, writes,
                  delivered, feed, call,
                  gateway, metrics >>

\* Mutant: the write is conditional on the fingerprint stored by then.
CommitRechecked(i) ==
  /\ pc[i] = "sleeping"
  /\ now >= wake[i]
  /\ IF IsDuplicate(Snapshot(store, DocRef(loc[i])), loc[i].content_hash)
       THEN /\ Return(i, SkippedResponse(loc[i].log_id), hist[i])
            /\ UNCHANGED << store, writes >>
       ELSE /\ store' = Set(store, DocRef(loc[i]), DocData(loc[i], now))
            /\ writes' = Append(writes,
                            [id |-> hist[i].id, body |-> req[i],
                             ref |-> DocRef(loc[i]),
                             doc |-> DocData(loc[i], now),
                             reads |-> hist[i].reads, got |-> hist[i].got,
                             overlapped |-> hist[i].overlapped,
                             at |-> delivered])
            /\ pc' = [pc EXCEPT ![i] = "stored"]
            /\ hist' = [hist EXCEPT ![i].writes = @ + 1]
            /\ UNCHANGED << resp, log >>
  /\ UNCHANGED << db, now, req, loc, wake, delivered, feed, call,
                  gateway, metrics >>

\* Mutant: the write does not wait for the end of the sleep.
CommitBeforeWake(i) ==
  /\ pc[i] = "sleeping"
  /\ LET doc_data == DocData(loc[i], now) IN
       /\ store' = Set(store, DocRef(loc[i]), doc_data)
       /\ writes' = Append(writes, [id |-> hist[i].id, body |-> req[i],
                                    ref |-> DocRef(loc[i]), doc |-> doc_data,
                                    reads |-> hist[i].reads,
                                    got |-> hist[i].got,
                                    overlapped |-> hist[i].overlapped,
                                    at |-> delivered])
  /\ pc' = [pc EXCEPT ![i] = "stored"]
  /\ hist' = [hist EXCEPT ![i].writes = @ + 1]
  /\ UNCHANGED << db, now, req, loc, wake, resp, log, delivered, feed, call,
                  gateway, metrics >>

\* process(), lines 223-235: after the sleep, redact and write.
Commit(i) ==
  /\ pc[i] = "sleeping"
  /\ now >= wake[i]
  /\ LET doc_data == DocData(loc[i], now) IN
       /\ store' = Set(store, DocRef(loc[i]), doc_data)
       /\ writes' = Append(writes, [id |-> hist[i].id, body |-> req[i],
                                    ref |-> DocRef(loc[i]), doc |-> doc_data,
                                    reads |-> hist[i].reads,
                                    got |-> hist[i].got,
                                    overlapped |-> hist[i].overlapped,
                                    at |-> delivered])
  /\ pc' = [pc EXCEPT ![i] = "stored"]
  /\ hist' = [hist EXCEPT ![i].writes = @ + 1]
  /\ UNCHANGED << db, now, req, loc, wake, resp, log, delivered, feed, call,
                  gateway, metrics >>

\* Mutant: the exception of the write is swallowed and the answer is 200.
CommitFailAcked(i) ==
  /\ pc[i] = "sleeping"
  /\ now >= wake[i]
  /\ Return(i, ProcessedResponse(loc[i].log_id),
            [hist[i] EXCEPT !.failed = "write"])
  /\ UNCHANGED << store, db, now, req, loc, wake, writes, delivered, feed, call,
                  gateway, metrics >>

\* Mutant: the except branch deletes the document before it answers.
CommitFailDeletes(i) ==
  /\ pc[i] = "sleeping"
  /\ now >= wake[i]
  /\ store' = [r \in DOMAIN store \ {DocRef(loc[i])} |-> store[r]]
  /\ Return(i, ProcessingErrorResponse, [hist[i] EXCEPT !.failed = "write"])
  /\ UNCHANGED << db, now, req, loc, wake, writes, delivered, feed, call,
                  gateway, metrics >>

\* doc_ref.set() raises: the except branch logs and answers 500.
CommitFail(i) ==
  /\ pc[i] = "sleeping"
  /\ now >= wake[i]
  /\ Return(i, ProcessingErrorResponse,
            Logged([hist[i] EXCEPT !.failed = "write"],
                   << FirestoreFailedLog(loc[i]) >>))
  /\ UNCHANGED << store, db, now, req, loc, wake, writes, delivered, feed, call,
                  gateway, metrics >>

\* process(), lines 254-264: the write went through, answer 200.
Ack(i) ==
  /\ pc[i] = "stored"
  /\ Return(i, ProcessedResponse(loc[i].log_id),
            Logged(hist[i], << StoredLog(loc[i]) >>))
  /\ UNCHANGED << store, db, now, req, loc, wake, writes, delivered, feed, call,
                  gateway, metrics >>

Next ==
  \/ \E i \in Inv, b \in BodyIds : Deliver(i, b)
  \/ \E i \in Inv : Decode(i)
  \/ \E i \in Inv : Check(i)
  \/ \E i \in Inv : CheckFail(i)
  \/ Tick
  \/ \E i \in Inv : Commit(i)
  \/ \E i \in Inv : CommitFail(i)
  \/ \E i \in Inv : Ack(i)

Spec == Init /\ [][Next]_vars

(***************************************************************************)
(* The queue redelivers what was answered 500; store failures are         *)
(* transient                                                               *)
(***************************************************************************)

\* Store calls that raise in one run: after that many the store accepts
\* every read and write.
MaxFaults == 1

\* The valid messages of one run: two versions of one key; two tenants; two
\* payloads with one fingerprint; messages without optional attributes and
\* without data; an empty payload and another log id.
LiveFeeds == { {1, 2}, {1, 6}, {1, 3}, {4, 5}, {7, 22} }

LiveInit ==
  /\ store = [r \in {} |-> 0]
  /\ db = FALSE
  /\ now = 0
  /\ pc = [i \in Inv |-> "idle"]
  /\ req = [i \in Inv |-> 0]
  /\ loc = [i \in Inv |-> NoLocals]
  /\ wake = [i \in Inv |-> 0]
  /\ resp = [i \in Inv |-> NoResponse]
  /\ hist = [i \in Inv |-> NoHistory]
  /\ log = << >>
  /\ writes = << >>
  /\ delivered = 0
  /\ feed \in LiveFeeds
  /\ arg = << >>
  /\ ret = << >>
  /\ GatewayIdle
  /\ MetricsIdle

\* The answers message b has received, in order.
Answers(b) == SelectSeq(log, LAMBDA e : e.body = b)

\* The queue has message b to deliver: it is not being handled, and it was
\* never delivered or its last answer was not 200 (200 acknowledges, any
\* other status triggers a retry; a valid message gets 200 or 500).
Pending(b) ==
  /\ b \in feed
  /\ \A i \in Inv : Active(i) => req[i] # b
  /\ LET answers == Answers(b) IN
       answers # << >> => answers[Len(answers)].resp.status # 200

\* The queue delivers, or redelivers, a pending message.
Redeliver(i, b) == Pending(b) /\ Deliver(i, b)

\* Store calls that have raised so far.
Faults == Cardinality({ n \in 1..Len(log) : log[n].failed # "" })

LiveCheckFail(i) == Faults < MaxFaults /\ CheckFail(i)

LiveCommitFail(i) == Faults < MaxFaults /\ CommitFail(i)

LiveNext ==
  \/ \E i \in Inv, b \in BodyIds : Redeliver(i, b)
  \/ \E i \in Inv : Decode(i)
  \/ \E i \in Inv : Check(i)
  \/ \E i \in Inv : LiveCheckFail(i)
  \/ Tick
  \/ \E i \in Inv : Commit(i)
  \/ \E i \in Inv : LiveCommitFail(i)
  \/ \E i \in Inv : Ack(i)

\* The event loop runs every coroutine that can take a step, time passes,
\* and the queue delivers every message it holds.
LiveFairness ==
  /\ \A i \in Inv : WF_vars(Decode(i))
  /\ \A i \in Inv : WF_vars(Check(i))
  /\ \A i \in Inv : WF_vars(Commit(i))
  /\ \A i \in Inv : WF_vars(Ack(i))
  /\ WF_vars(Tick)
  /\ \A b \in UNION LiveFeeds : WF_vars(\E i \in Inv : Redeliver(i, b))

LiveSpec == LiveInit /\ [][LiveNext]_vars /\ LiveFairness

(***************************************************************************)
(* redact_sensitive_data on its own                                        *)
(***************************************************************************)

\* Pieces of text: parts of phone numbers, of an IPv4 address, of an email
\* address and of an SSN, and other characters.
Fragments ==
  << Str(<< "5", "5", "5" >>),
     Str(<< "-" >>),
     Str(<< "0", "1", "9", "9" >>),
     Str(<< "1", ".", "2" >>),
     Str(<< ".", "3", ".", "4" >>),
     Str(<< "a", "@", "b" >>),
     Str(<< ".", "c", "o" >>),
     Str(<< "x" >>),
     Str(<< " " >>),
     Str(<< "1", "2" >>),
     Str(<< "1", "2", "3", "-", "4", "5" >>),
     Str(<< "5", "5", "5", "-", "1", "2", "3" >>),
     Str(<< "@", "b", ".", "c", "o" >>) >>

\* Pieces in one text.
MaxFragments == 3

\* The texts of at most n pieces.
RECURSIVE TextsOf(_)
TextsOf(n) ==
  IF n = 0 THEN { << >> }
  ELSE LET shorter == TextsOf(n - 1) IN
       shorter \cup { t \o Fragments[k] : t \in shorter,
                                          k \in 1..Len(Fragments) }

\* Sentences: a head, sensitive items separated by words or a blank, and a
\* tail, as in "User 555-0199 from 203.0.113.42 emailed admin@test.com" and
\* "User 555-0199 accessed the system" (tests/test_utils.py).
Items ==
  << Str(<< "5", "5", "5", "-", "0", "1", "9", "9" >>),
     Str(<< "5", "5", "5", "-", "1", "2", "3", "-", "4", "5", "6", "7" >>),
     Str(<< "2", "0", "3", ".", "0", ".", "1", "1", "3", ".", "4", "2" >>),
     Str(<< "a", "d", "m", "i", "n", "@", "t", "e", "s", "t", ".", "c", "o",
              "m" >>),
     Str(<< "1", "2", "3", "-", "4", "5", "-", "6", "7", "8", "9" >>) >>

Fillers ==
  << Str(<< " " >>),
     Str(<< " ", "f", "r", "o", "m", " " >>),
     Str(<< " ", "e", "m", "a", "i", "l", "e", "d", " " >>) >>

Heads ==
  << << >>,
     Str(<< "U", "s", "e", "r", " " >>) >>

Tails ==
  << << >>,
     Str(<< " ", "a", "c", "c", "e", "s", "s", "e", "d", " ", "t", "h", "e",
              " ", "s", "y", "s", "t", "e", "m" >>) >>

\* Items in one sentence.
MaxItems == 3

\* The item lists of n items: an item, then fillers and items in turn.
RECURSIVE ItemLists(_)
ItemLists(n) ==
  IF n = 1 THEN { Items[k] : k \in 1..Len(Items) }
  ELSE LET shorter == ItemLists(n - 1) IN
       shorter \cup { t \o Fillers[f] \o Items[k] :
                        t \in shorter,
                        f \in 1..Len(Fillers), k \in 1..Len(Items) }

Sentences ==
  { Heads[h] \o t \o Tails[k] :
      h \in 1..Len(Heads), t \in ItemLists(MaxItems), k \in 1..Len(Tails) }

Texts == TextsOf(MaxFragments) \cup Sentences

\* No delivery is in progress; the function is about to be called on a text.
RedactInit ==
  /\ store = [r \in {} |-> 0]
  /\ db = FALSE
  /\ now = 0
  /\ pc = [i \in Inv |-> "idle"]
  /\ req = [i \in Inv |-> 0]
  /\ loc = [i \in Inv |-> NoLocals]
  /\ wake = [i \in Inv |-> 0]
  /\ resp = [i \in Inv |-> NoResponse]
  /\ hist = [i \in Inv |-> NoHistory]
  /\ log = << >>
  /\ writes = << >>
  /\ delivered = 0
  /\ feed = {}
  /\ arg \in Texts
  /\ ret = << >>
  /\ GatewayIdle
  /\ MetricsIdle

\* The call returns.
Redact ==
  /\ ret = << >>
  /\ ret' = << redact_sensitive_data(arg) >>
  /\ UNCHANGED << store, db, now, pc, req, loc, wake, resp, hist, log,
                  writes, delivered, feed, arg, gateway, metrics >>

RedactNext == Redact

RedactSpec == RedactInit /\ [][RedactNext]_vars

(***************************************************************************)
(* Gateway: POST /ingest (ingestion-service/api/ingest.py), the topic and  *)
(* the deliveries of its messages to the worker                            *)
(***************************************************************************)

\* Requests one run of the gateway receives.
MaxRequests == 2

\* Deliveries of published messages to the worker in one run.
MaxPushes == 2

\* The error codes of response.ErrorCodes.
VALIDATION_ERROR         == "VALIDATION_ERROR"
INVALID_JSON             == "INVALID_JSON"
UNSUPPORTED_CONTENT_TYPE == "UNSUPPORTED_CONTENT_TYPE"
PAYLOAD_TOO_LARGE        == "PAYLOAD_TOO_LARGE"
SERVICE_UNAVAILABLE      == "SERVICE_UNAVAILABLE"

SCHEMA_VERSION == "1"

ApplicationJson == Str(<< "a", "p", "p", "l", "i", "c", "a", "t", "i", "o", "n", "/", "j",
           "s", "o", "n" >>)
TextPlain       == Str(<< "t", "e", "x", "t", "/", "p", "l", "a", "i", "n" >>)

\* str.lower() and str.startswith() on ASCII text.
ToLower(s) == [k \in 1..Len(s) |-> IF s[k] \in Upper THEN s[k] + 32 ELSE s[k]]
StartsWith(s, prefix) ==
  Len(s) >= Len(prefix) /\ SubSeq(s, 1, Len(prefix)) = prefix

\* "not text.strip()": the text is empty or white space only.
Blank(text) == \A k \in 1..Len(text) : text[k] \in Space

\* bytes.decode("utf-8", errors="replace") of a body that is valid UTF-8 or
\* whose bytes above 127 are all invalid: each of these becomes U+FFFD.
DecodeReplace(body) ==
  LET strict == Utf8Decode(body, 1, << >>) IN
    IF strict.ok THEN strict.text
    ELSE [k \in 1..Len(body) |-> IF body[k] < 128 THEN body[k] ELSE 65533]

\* A header is << >> when absent and << value >> when present;
\* headers.get(name) is truthy for a present, non-empty value.
Truthy(header) == header # << >> /\ header[1] # ""

\* str(uuid4()): the n-th identifier generated, unlike all others.
Uuids == << "u1", "u2", "u3", "u4", "u5", "u6", "u7", "u8" >>
uuid4(n) == Uuids[n]

\* hashlib.sha256(data).hexdigest(), with a 16-bit polynomial checksum
\* standing for SHA-256: a function of the bytes alone, written as
\* hexadecimal digits.
HexDigits ==
  << "0", "1", "2", "3", "4", "5", "6", "7", "8", "9", "a", "b", "c", "d",
     "e", "f" >>

RECURSIVE Digest(_, _, _)
Digest(data, i, h) ==
  IF i > Len(data) THEN h
  ELSE Digest(data, i + 1, ((h * 31) + data[i] + 1) % 65536)

sha256_hexdigest(data) ==
  LET h == Digest(data, 1, 7) IN
    HexDigits[((h \div 4096) % 16) + 1] \o HexDigits[((h \div 256) % 16) + 1]
      \o HexDigits[((h \div 16) % 16) + 1] \o HexDigits[(h % 16) + 1]

\* JSONResponse(content = {success, data: {status, log_id, correlation_id},
\* error: {code, message}}, status_code).  raised marks the answer the
\* server gives for an exception that left the handler.
GatewayResponse(status, success, code, message, log_id, correlation_id) ==
  [status |-> status, success |-> success,
   result |-> IF success THEN "accepted" ELSE "",
   code |-> code, message |-> message, log_id |-> log_id,
   correlation_id |-> correlation_id, raised |-> FALSE]

GatewayError(status, code, message) ==
  GatewayResponse(status, FALSE, code, message, "", "")

AcceptedResponse(log_id, correlation_id) ==
  GatewayResponse(202, TRUE, "", "", log_id, correlation_id)

GatewayUncaught == [GatewayError(500, "", "") EXCEPT !.raised = TRUE]

\* What one call of ingest() does: its response, the message it publishes
\* (none or one), what it logs, the uuid4() calls made by then, and whether
\* get_publisher() returned.
Outcome(reply, message, logs, n, client) ==
  [reply |-> reply, message |-> message, logs |-> logs, uuids |-> n,
   client |-> client]

Refused(reply, n) == Outcome(reply, << >>, << >>, n, FALSE)

\* len() of a JSON value; a number has none (TypeError).
HasLen(j) == j.t \in {"str", "list", "obj"}
PyLen(j) ==
  CASE j.t = "str"  -> Len(j.c)
    [] j.t = "list" -> Len(j.l)
    [] j.t = "obj"  -> Cardinality(DOMAIN j.f)

\* Mutant: the header is ignored and an identifier is always generated.
CorrelationIdAlwaysFresh(x_request_id, fresh) == fresh

\* request.headers.get("x-request-id") or str(uuid4())
CorrelationId(x_request_id, fresh) ==
  IF Truthy(x_request_id) THEN x_request_id[1] ELSE fresh

\* Mutant: the limit is exclusive.
TooLongAtLimit(length) == length >= MaxTextLength

\* len(text) > MAX_TEXT_LENGTH
TooLong(length) == length > MaxTextLength

\* Mutant: the fingerprint is taken of the text without surrounding blanks.
ContentHashOfStripped(text) ==
  sha256_hexdigest(Utf8Encode(SelectSeq(text, LAMBDA c : c \notin Space), 1))

\* hashlib.sha256(text.encode("utf-8")).hexdigest()
ContentHash(text) == sha256_hexdigest(Utf8Encode(text, 1))

\* The message of pub.publish(topic_path, data=..., **attributes).
Message(tenant_id, log_id, text, source, correlation_id) ==
  [data |-> Utf8Encode(text, 1),
   attrs |-> [tenant_id |-> tenant_id, log_id |-> log_id, source |-> source,
              content_hash |-> ContentHash(text),
              schema_version |-> SCHEMA_VERSION,
              correlation_id |-> correlation_id]]

PublishException == [level |-> "error", event |-> "publish exception",
                     log_id |-> ""]

PublishFailed(log_id) == [level |-> "error", event |-> "publish failed",
                          log_id |-> log_id]

\* Mutant: an exception of the publish step is logged and the request is
\* answered 202 all the same.
PublishAccepting(tenant_id, log_id, text, source, correlation_id, n, fault) ==
  IF ~HasLen(text) THEN Refused(GatewayUncaught, n)
  ELSE IF TooLong(PyLen(text))
    THEN Refused(GatewayError(413, PAYLOAD_TOO_LARGE,
                              "text exceeds MAX_TEXT_LENGTH characters"), n)
  ELSE IF text.t # "str" THEN Refused(GatewayUncaught, n)
  ELSE IF fault # "none"
    THEN Outcome(AcceptedResponse(log_id, correlation_id),
                 << >>, << PublishException >>, n, fault = "publish")
  ELSE Outcome(AcceptedResponse(log_id, correlation_id),
               << Message(tenant_id, log_id, text.c, source,
                          correlation_id) >>,
               << >>, n, TRUE)

\* ingest(), lines 266-324: the length check, the fingerprint, the publish
\* call and the 202.  text is a JSON value: len() of a number and .encode
\* of a list or an object raise outside the try block.  fault is "client"
\* when PublisherClient() raises, "publish" when pub.publish() raises.
Publish(tenant_id, log_id, text, source, correlation_id, n, fault) ==
  IF ~HasLen(text) THEN Refused(GatewayUncaught, n)
  ELSE IF TooLong(PyLen(text))
    THEN Refused(GatewayError(413, PAYLOAD_TOO_LARGE,
                              "text exceeds MAX_TEXT_LENGTH characters"), n)
  ELSE IF text.t # "str" THEN Refused(GatewayUncaught, n)
  ELSE IF fault # "none"
    THEN Outcome(GatewayError(503, SERVICE_UNAVAILABLE,
                              "failed to queue message"),
                 << >>, << PublishException >>, n, fault = "publish")
  ELSE Outcome(AcceptedResponse(log_id, correlation_id),
               << Message(tenant_id, log_id, text.c, source,
                          correlation_id) >>,
               << >>, n, TRUE)

\* Mutant: a JSON record is accepted without a log_id.
IngestJsonNoLogId(body, correlation_id, n, fault) ==
  IF body.t = "notjson"
    THEN Refused(GatewayError(400, INVALID_JSON, "invalid JSON"), n)
  ELSE IF body.t # "obj" THEN Refused(GatewayUncaught, n)
  ELSE LET tenant_id == Get(body, "tenant_id", JNull)
           log_id    == Get(body, "log_id", JChars(""))
           text      == Get(body, "text", JNull)
       IN IF Falsy(tenant_id)
            THEN Refused(GatewayError(400, VALIDATION_ERROR,
                                      "tenant_id required"), n)
          ELSE IF Falsy(text)
            THEN Refused(GatewayError(400, VALIDATION_ERROR,
                                      "text required"), n)
          ELSE Publish(tenant_id.c, IF log_id.t = "str" THEN log_id.c ELSE "",
                       text, "json_upload", correlation_id, n, fault)

\* ingest(), lines 163-219: the JSON branch.  body is the parsed JSON
\* value; body.get on a value that is not an object raises AttributeError.
IngestJson(body, correlation_id, n, fault) ==
  IF body.t = "notjson"
    THEN Refused(GatewayError(400, INVALID_JSON, "invalid JSON"), n)
  ELSE IF body.t # "obj" THEN Refused(GatewayUncaught, n)
  ELSE LET tenant_id == Get(body, "tenant_id", JNull)
           log_id    == Get(body, "log_id", JNull)
           text      == Get(body, "text", JNull)
       IN IF Falsy(tenant_id)
            THEN Refused(GatewayError(400, VALIDATION_ERROR,
                                      "tenant_id required"), n)
          ELSE IF Falsy(log_id)
            THEN Refused(GatewayError(400, VALIDATION_ERROR,
                                      "log_id required"), n)
          ELSE IF Falsy(text)
            THEN Refused(GatewayError(400, VALIDATION_ERROR,
                                      "text required"), n)
          ELSE Publish(tenant_id.c, log_id.c, text, "json_upload",
                       correlation_id, n, fault)

\* ingest(), lines 221-251: the text/plain branch; the log id is generated.
IngestText(x_tenant_id, body, correlation_id, n, fault) ==
  IF ~Truthy(x_tenant_id)
    THEN Refused(GatewayError(400, VALIDATION_ERROR,
                              "X-Tenant-ID header required"), n)
  ELSE LET text == DecodeReplace(body) IN
    IF Blank(text)
      THEN Refused(GatewayError(400, VALIDATION_ERROR, "text required"), n)
    ELSE Publish(x_tenant_id[1], uuid4(n + 1), JChars(text), "text_upload",
                 correlation_id, n + 1, fault)

\* ingest(request), after n calls of uuid4().
ingest(request, n, fault) ==
  LET content_type   == ToLower(request.content_type)
      correlation_id == CorrelationId(request.x_request_id, uuid4(n + 1))
      n1 == IF Truthy(request.x_request_id) THEN n ELSE n + 1
  IN IF StartsWith(content_type, ApplicationJson)
       THEN IngestJson(request.json, correlation_id, n1, fault)
     ELSE IF StartsWith(content_type, TextPlain)
       THEN IngestText(request.x_tenant_id, request.body, correlation_id,
                       n1, fault)
     ELSE Refused(GatewayError(415, UNSUPPORTED_CONTENT_TYPE,
                               "unsupported Content-Type"), n1)

\* The requests of the model.
JsonRequest(content_type, x_request_id, json) ==
  [content_type |-> content_type, x_request_id |-> x_request_id,
   x_tenant_id |-> << >>, json |-> json, body |-> << >>]

TextRequest(content_type, x_request_id, x_tenant_id, body) ==
  [content_type |-> content_type, x_request_id |-> x_request_id,
   x_tenant_id |-> x_tenant_id, json |-> NotJson, body |-> body]

Record(tenant_id, log_id, text) ==
  JObj([tenant_id |-> JChars(tenant_id), log_id |-> JChars(log_id),
        text |-> text])

Requests ==
  << \* 1: a JSON record
     JsonRequest(ApplicationJson, << >>, Record("t1", "l1", JChars(TextHi))),
     \* 2: the same record with an X-Request-Id header
     JsonRequest(ApplicationJson, << "r1" >>,
                 Record("t1", "l1", JChars(TextHi))),
     \* 3: another text for the same key
     JsonRequest(ApplicationJson, << "r2" >>,
                 Record("t1", "l1", JChars(TextMail))),
     \* 4: an empty X-Request-Id header
     JsonRequest(ApplicationJson, << "" >>,
                 Record("t1", "l2", JChars(TextHi))),
     \* 5: "Application/JSON; charset=utf-8", a text of MaxTextLength
     JsonRequest(Str(<< "A", "p", "p", "l", "i", "c", "a", "t", "i", "o",
                          "n", "/", "J", "S", "O", "N", ";", " ", "c", "h", "a", "r",
                          "s", "e", "t", "=", "u", "t", "f", "-", "8" >>),
                 << "r1" >>, Record("t2", "l1", JChars(TextAtLimit))),
     \* 6: a text of MaxTextLength + 1 characters
     JsonRequest(ApplicationJson, << >>,
                 Record("t1", "l1", JChars(TextOverLimit))),
     \* 7: a body that is not JSON
     JsonRequest(ApplicationJson, << >>, NotJson),
     \* 8: a JSON array
     JsonRequest(ApplicationJson, << >>, JList(<< >>)),
     \* 9: no tenant_id
     JsonRequest(ApplicationJson, << >>,
                 JObj([log_id |-> JChars("l1"), text |-> JChars(TextHi)])),
     \* 10: an empty tenant_id
     JsonRequest(ApplicationJson, << >>, Record("", "l1", JChars(TextHi))),
     \* 11: no log_id
     JsonRequest(ApplicationJson, << >>,
                 JObj([tenant_id |-> JChars("t1"), text |-> JChars(TextHi)])),
     \* 12: an empty text
     JsonRequest(ApplicationJson, << >>, Record("t1", "l1", JChars(<< >>))),
     \* 13: a blank text in a JSON record
     JsonRequest(ApplicationJson, << >>, Record("t1", "l1", JChars(TextBlank))),
     \* 14: a text that is a number
     JsonRequest(ApplicationJson, << >>, Record("t1", "l1", JNum(5))),
     \* 15: text/plain
     TextRequest(TextPlain, << >>, << "t1" >>, Utf8Encode(TextHi, 1)),
     \* 16: text/plain without X-Tenant-ID
     TextRequest(TextPlain, << "r1" >>, << >>, Utf8Encode(TextHi, 1)),
     \* 17: an empty text/plain body
     TextRequest(TextPlain, << >>, << "t1" >>, << >>),
     \* 18: a blank text/plain body
     TextRequest(TextPlain, << >>, << "t1" >>, Utf8Encode(TextBlank, 1)),
     \* 19: a text/plain body that is not UTF-8
     TextRequest(TextPlain, << "r1" >>, << "t1" >>, << 255 >>),
     \* 20: a text/plain body of MaxTextLength characters
     TextRequest(TextPlain, << >>, << "t2" >>, Utf8Encode(TextAtLimit, 1)),
     \* 21: a text/plain body of MaxTextLength + 1 characters
     TextRequest(TextPlain, << >>, << "t1" >>, Utf8Encode(TextOverLimit, 1)),
     \* 22: application/xml
     TextRequest(Str(<< "a", "p", "p", "l", "i", "c", "a", "t", "i", "o",
                          "n", "/", "x", "m", "l" >>),
                 << >>, << "t1" >>, Utf8Encode(TextHi, 1)),
     \* 23: no Content-Type
     JsonRequest(<< >>, << "r1" >>, Record("t1", "l1", JChars(TextHi)))
  >>

\* What can raise in the publish step of one call.
PublishFaults == {"none", "client", "publish"}

worker == << store, db, now, pc, req, loc, wake, resp, hist, log, writes,
             delivered, feed >>

IngestInit ==
  /\ store = [r \in {} |-> 0]
  /\ db = FALSE
  /\ now = 0
  /\ pc = [i \in Inv |-> "idle"]
  /\ req = [i \in Inv |-> 0]
  /\ loc = [i \in Inv |-> NoLocals]
  /\ wake = [i \in Inv |-> 0]
  /\ resp = [i \in Inv |-> NoResponse]
  /\ hist = [i \in Inv |-> NoHistory]
  /\ log = << >>
  /\ writes = << >>
  /\ delivered = 0
  /\ feed = {}
  /\ arg = << >>
  /\ ret = << >>
  /\ GatewayIdle
  /\ MetricsIdle

\* One call of ingest(): the response goes to the caller; a published
\* message is in the topic with its future pending and publish_callback
\* attached to it.
Ingest(r, fault) ==
  /\ Len(replies) < MaxRequests
  /\ fault = "client" => ~publisher
  /\ LET out == ingest(Requests[r], uuids, fault) IN
       /\ replies' = Append(replies, [request |-> r, reply |-> out.reply,
                                      fault |-> fault])
       /\ topic' = topic \o
            [k \in 1..Len(out.message) |->
               [data |-> out.message[k].data, attrs |-> out.message[k].attrs,
                future |-> "pending", by |-> Len(replies) + 1]]
       /\ glog' = glog \o out.logs
       /\ uuids' = out.uuids
       /\ publisher' = (publisher \/ out.client)
  /\ UNCHANGED << worker, call, metrics, pushes >>

\* The broker acknowledges a publish: publish_callback finds a result and
\* logs nothing.
BrokerAck(k) ==
  /\ k \in DOMAIN topic
  /\ topic[k].future = "pending"
  /\ topic' = [topic EXCEPT ![k].future = "acked"]
  /\ UNCHANGED << worker, call, metrics, publisher, uuids, replies, glog, pushes >>

\* Mutant: the failure of the publish is turned into the answer 503.
BrokerFailAnswered(k) ==
  /\ k \in DOMAIN topic
  /\ topic[k].future = "pending"
  /\ topic' = [topic EXCEPT ![k].future = "failed"]
  /\ replies' = [replies EXCEPT ![topic[k].by].reply =
                   GatewayError(503, SERVICE_UNAVAILABLE,
                                "failed to queue message")]
  /\ UNCHANGED << worker, call, metrics, publisher, uuids, glog, pushes >>

\* The publish fails at the broker: publish_callback logs the exception.
BrokerFail(k) ==
  /\ k \in DOMAIN topic
  /\ topic[k].future = "pending"
  /\ topic' = [topic EXCEPT ![k].future = "failed"]
  /\ glog' = Append(glog, PublishFailed(topic[k].attrs.log_id))
  /\ UNCHANGED << worker, call, metrics, publisher, uuids, replies, pushes >>

\* The queue pushes a published message and process() runs to its end
\* with no other invocation beside it and no failure of the store.
Push(k) ==
  /\ Len(pushes) < MaxPushes
  /\ k \in DOMAIN topic
  /\ topic[k].future = "acked"
  /\ db' = TRUE
  /\ LET p == ParseEnvelope(Envelope(JChars(b64encode(topic[k].data, 1)),
                                     topic[k].attrs))
         l == p.loc
         existing == Snapshot(store, DocRef(l))
     IN IF p.kind # "ok"
          THEN /\ pushes' = Append(pushes, [msg |-> k, result |-> "failed",
                                             left |-> store])
               /\ UNCHANGED << store, now >>
        ELSE IF l.content_hash # "" /\ IsDuplicate(existing, l.content_hash)
          THEN /\ pushes' = Append(pushes, [msg |-> k, result |-> "skipped",
                                             left |-> store])
               /\ UNCHANGED << store, now >>
        ELSE /\ now' = now + Len(l.text) * SleepPerChar
             /\ store' = Set(store, DocRef(l), DocData(l, now'))
             /\ pushes' = Append(pushes, [msg |-> k, result |-> "processed",
                                           left |-> store'])
  /\ UNCHANGED << pc, req, loc, wake, resp, hist, log, writes, delivered,
                  feed, call, publisher, uuids, replies, topic, glog,
                  metrics >>

IngestNext ==
  \/ \E r \in 1..Len(Requests), fault \in PublishFaults : Ingest(r, fault)
  \/ \E k \in 1..MaxRequests : BrokerAck(k)
  \/ \E k \in 1..MaxRequests : BrokerFail(k)
  \/ \E k \in 1..MaxRequests : Push(k)

IngestSpec == IngestInit /\ [][IngestNext]_vars

(***************************************************************************)
(* The metrics module                                                      *)
(***************************************************************************)

\* Calls of record_request in one run.
MaxCalls == 3

\* Ticks of the clock in one run.
MaxClock == 2

HealthPrefix  == Str(<< "/", "h", "e", "a", "l", "t", "h" >>)
MetricsPrefix == Str(<< "/", "m", "e", "t", "r", "i", "c", "s" >>)

\* request.url.path of the requests the middleware sees.
Paths ==
  { Str(<< "/", "h", "e", "a", "l", "t", "h" >>),
    Str(<< "/", "m", "e", "t", "r", "i", "c", "s" >>),
    Str(<< "/", "h", "e", "a", "l", "t", "h", "/", "l", "i", "v", "e" >>),
    Str(<< "/", "m", "e", "t", "r", "i", "c", "s", "/" >>),
    Str(<< "/", "i", "n", "g", "e", "s", "t" >>),
    Str(<< "/" >>),
    << >>,
    Str(<< "/", "v", "1", "/", "h", "e", "a", "l", "t", "h" >>),
    Str(<< "/", "m", "e", "t", "r", "i", "c" >>) }

\* Mutant: every request is counted, /health and /metrics as well.
record_request_unfiltered(path) ==
  /\ Len(calls) < MaxCalls
  /\ calls' = Append(calls, path)
  /\ REQUESTS_TOTAL' = REQUESTS_TOTAL + 1
  /\ LAST_REQUEST_AT' = << clock >>
  /\ UNCHANGED << worker, call, gateway, clock, report >>

\* record_request(path): nothing for a path that starts with /health or
\* /metrics; otherwise the counter grows by one and the time is noted.
record_request(path) ==
  /\ Len(calls) < MaxCalls
  /\ calls' = Append(calls, path)
  /\ IF StartsWith(path, HealthPrefix) \/ StartsWith(path, MetricsPrefix)
       THEN UNCHANGED << REQUESTS_TOTAL, LAST_REQUEST_AT >>
       ELSE /\ REQUESTS_TOTAL' = REQUESTS_TOTAL + 1
            /\ LAST_REQUEST_AT' = << clock >>
  /\ UNCHANGED << worker, call, gateway, clock, report >>

\* snapshot(): the dict of the current metrics.
snapshot ==
  /\ report' = << [service |-> "worker",
                   uptime_seconds |-> clock - START_TIME,
                   requests_total |-> REQUESTS_TOTAL,
                   last_request_at |-> LAST_REQUEST_AT] >>
  /\ UNCHANGED << worker, call, gateway, REQUESTS_TOTAL, LAST_REQUEST_AT,
                  clock, calls >>

\* Time passes.
ClockTick ==
  /\ clock < MaxClock
  /\ clock' = clock + 1
  /\ UNCHANGED << worker, call, gateway, REQUESTS_TOTAL, LAST_REQUEST_AT,
                  calls, report >>

MetricsInit ==
  /\ store = [r \in {} |-> 0]
  /\ db = FALSE
  /\ now = 0
  /\ pc = [i \in Inv |-> "idle"]
  /\ req = [i \in Inv |-> 0]
  /\ loc = [i \in Inv |-> NoLocals]
  /\ wake = [i \in Inv |-> 0]
  /\ resp = [i \in Inv |-> NoResponse]
  /\ hist = [i \in Inv |-> NoHistory]
  /\ log = << >>
  /\ writes = << >>
  /\ delivered = 0
  /\ feed = {}
  /\ arg = << >>
  /\ ret = << >>
  /\ GatewayIdle
  /\ MetricsIdle

MetricsNext ==
  \/ \E path \in Paths : record_request(path)
  \/ snapshot
  \/ ClockTick

MetricsSpec == MetricsInit /\ [][MetricsNext]_vars

(***************************************************************************)
(* Properties                                                              *)
(***************************************************************************)

Valid(b) == Decoded[b].kind = "ok"

\* The locals a request body decodes to.
L(b) == Decoded[b].loc

Done(i) == pc[i] = "done"

\* Nothing has been delivered since invocation i.
Latest(i) == hist[i].id = delivered

\* Invocation i is over, and no other invocation ran during it or since.
Alone(i) == Done(i) /\ Latest(i) /\ ~hist[i].overlapped

\* Two documents agree in every field except processed_at.
SameButTime(d, e) ==
  [d EXCEPT !.processed_at = 0] = [e EXCEPT !.processed_at = 0]

\* The fingerprint stored in a snapshot, "" when there is no document.
StoredHash(snap) == IF Len(snap) = 1 THEN snap[1].content_hash ELSE ""

\* The last write to a path, 0 when there is none.
LastWrite(ref) ==
  LET ws == { n \in 1..Len(writes) : writes[n].ref = ref } IN
  IF ws = {} THEN 0 ELSE CHOOSE n \in ws : \A m \in ws : m <= n

\* A valid delivery of a non-empty fingerprint that arrived, alone, while its
\* key held a record with that same fingerprint.
DuplicateArrival(i) ==
  /\ Alone(i)
  /\ Valid(req[i])
  /\ L(req[i]).content_hash # ""
  /\ Len(hist[i].seen) = 1
  /\ hist[i].seen[1].content_hash = L(req[i]).content_hash

\* C1: with no overlapping invocations, a delivery of (tenant_id, log_id, F),
\* F not empty, that arrives while the record committed at the key carries F
\* is answered 200 "skipped" / "duplicate", performs no store write and
\* leaves the stored record unchanged.  (When its duplicate-check read
\* raises, the answer is the 500 of C9; there is still no write.)
C1_DuplicateSkipped ==
  \A i \in Inv :
    DuplicateArrival(i) =>
      /\ hist[i].writes = 0
      /\ \A n \in 1..Len(writes) : writes[n].id # hist[i].id
      /\ Snapshot(store, KeyOf(req[i])) = hist[i].seen
      /\ IF hist[i].failed = ""
           THEN resp[i] = SkippedResponse(L(req[i]).log_id)
           ELSE hist[i].failed = "read" /\ resp[i] = ProcessingErrorResponse

C1_Witness ==
  \E i \in Inv :
    /\ DuplicateArrival(i)
    /\ resp[i].status = 200 /\ resp[i].result = "skipped"
    /\ resp[i].reason = "duplicate"

\* What a delivery that is processed does: one write and 200 "processed",
\* or no write and 500 when a store call raised.
ProcessedOutcome(r, nwrites, failed, log_id) ==
  IF failed = ""
    THEN r = ProcessedResponse(log_id) /\ nwrites = 1
    ELSE r = ProcessingErrorResponse /\ nwrites = 0

\* Invocation i and the delivery completed just before it are two
\* deliveries for the same key with different non-empty fingerprints, neither
\* overlapping any other, each arriving when the key did not hold its
\* fingerprint (the second finds its own fingerprint only when the first
\* failed to replace a record that carried it).
TwoVersions(i) ==
  /\ Alone(i)
  /\ Valid(req[i])
  /\ hist[i].prev >= 1
  /\ LET p == log[hist[i].prev] IN
       /\ Valid(p.body)
       /\ ~p.overlapped
       /\ KeyOf(p.body) = KeyOf(req[i])
       /\ L(p.body).content_hash # ""
       /\ L(req[i]).content_hash # ""
       /\ L(p.body).content_hash # L(req[i]).content_hash
       /\ StoredHash(p.seen) # L(p.body).content_hash
       /\ StoredHash(hist[i].seen) # L(req[i]).content_hash

\* C2: of two non-overlapping deliveries for the same (tenant_id, log_id)
\* with different non-empty fingerprints, both are processed (each performs
\* exactly one store write and is answered 200 "processed") and the store
\* ends holding the record derived from the second.  (A delivery whose
\* store call raises is answered 500 and writes nothing, as in C9.)
C2_BothVersionsProcessed ==
  \A i \in Inv :
    TwoVersions(i) =>
      LET p == log[hist[i].prev] IN
        /\ ProcessedOutcome(p.resp, p.writes, p.failed, L(p.body).log_id)
        /\ ProcessedOutcome(resp[i], hist[i].writes, hist[i].failed,
                            L(req[i]).log_id)
        /\ hist[i].failed = "" =>
             /\ Exists(store, KeyOf(req[i]))
             /\ SameButTime(store[KeyOf(req[i])], DocData(L(req[i]), 0))
             /\ writes[LastWrite(KeyOf(req[i]))].id = hist[i].id

C2_Witness ==
  \E i \in Inv :
    /\ TwoVersions(i)
    /\ log[hist[i].prev].resp.result = "processed"
    /\ resp[i].result = "processed"
    /\ Len(writes) = 2
    /\ store[KeyOf(req[i])].content_hash = L(req[i]).content_hash

\* C3 as claimed: for each key and each fingerprint value at most one store
\* write carrying that fingerprint is ever performed, so a record is
\* overwritten only by a fingerprint that is new for the key.
C3_OneWritePerFingerprint ==
  \A m, n \in 1..Len(writes) :
    (m < n /\ writes[m].ref = writes[n].ref) =>
      writes[m].doc.content_hash # writes[n].doc.content_hash

\* The write before write n to the same path, 0 when there is none.
PreviousWrite(n) ==
  LET ws == { m \in 1..(n - 1) : writes[m].ref = writes[n].ref } IN
  IF ws = {} THEN 0 ELSE CHOOSE m \in ws : \A k \in ws : k <= m

\* C3, amended: a store write carrying a non-empty fingerprint F is performed
\* only by an invocation whose duplicate-check read found no record or a
\* record with a fingerprint other than F; when no other invocation ran
\* during it, the record it overwrites therefore carries another
\* fingerprint.  (The same fingerprint can be written again after another
\* one was stored in between, by overlapping deliveries, or when empty.)
C3_WriteOnlyPastGate ==
  \A n \in 1..Len(writes) :
    LET w == writes[n]
        F == w.doc.content_hash
    IN F # "" =>
         /\ w.reads = 1
         /\ StoredHash(w.got) # F
         /\ (~w.overlapped /\ PreviousWrite(n) # 0) =>
              writes[PreviousWrite(n)].doc.content_hash # F

C3_Witness ==
  \E m, n \in 1..Len(writes) :
    /\ m < n
    /\ writes[m].ref = writes[n].ref
    /\ writes[m].doc.content_hash = writes[n].doc.content_hash
    /\ writes[n].doc.content_hash # ""
    /\ ~writes[m].overlapped /\ ~writes[n].overlapped
    /\ PreviousWrite(n) # m

\* A valid delivery of a non-empty fingerprint that arrived, alone, while its
\* key held a record with another fingerprint.
OtherVersionArrival(i) ==
  /\ Alone(i)
  /\ Valid(req[i])
  /\ L(req[i]).content_hash # ""
  /\ Len(hist[i].seen) = 1
  /\ hist[i].seen[1].content_hash # L(req[i]).content_hash

\* C4: the gate compares the incoming fingerprint with the stored one only:
\* a delivery that finds a record with a different fingerprint is processed
\* as an update and its content replaces the record, whether or not its
\* fingerprint was committed at that key before (a redelivery of version A
\* after version B overwrites B with A).
C4_OlderVersionOverwrites ==
  \A i \in Inv :
    OtherVersionArrival(i) =>
      /\ resp[i].result # "skipped"
      /\ ProcessedOutcome(resp[i], hist[i].writes, hist[i].failed,
                          L(req[i]).log_id)
      /\ hist[i].failed # "read" => hist[i].got = hist[i].seen
      /\ hist[i].failed = "" =>
           /\ Exists(store, KeyOf(req[i]))
           /\ store[KeyOf(req[i])].content_hash = L(req[i]).content_hash
           /\ store[KeyOf(req[i])].original_text = L(req[i]).text
           /\ store[KeyOf(req[i])] # hist[i].seen[1]

C4_Witness ==
  \E i \in Inv :
    /\ OtherVersionArrival(i)
    /\ resp[i].result = "processed"
    /\ \E m \in 1..Len(writes) :
         /\ writes[m].id < hist[i].id
         /\ writes[m].ref = KeyOf(req[i])
         /\ writes[m].body = req[i]
    /\ store[KeyOf(req[i])].content_hash = L(req[i]).content_hash

\* C5: the duplicate check and the write are not atomic.  Passing the check
\* changes nothing in the store, and an invocation that leaves its sleep
\* writes whatever the store holds by then (or answers 500 when the write
\* raises): two deliveries of one (tenant_id, log_id, fingerprint) that both
\* read before either writes both write and are both answered "processed".
C5_CheckThenWriteNotAtomic ==
  [][\A i \in Inv :
       /\ (pc[i] = "decoded" /\ pc'[i] = "sleeping") => store' = store
       /\ (pc[i] = "sleeping" /\ pc'[i] # "sleeping") =>
            \/ /\ pc'[i] = "stored"
               /\ store' = Set(store, DocRef(loc[i]), DocData(loc[i], now))
            \/ /\ pc'[i] = "done"
               /\ resp'[i] = ProcessingErrorResponse
               /\ store' = store]_vars

C5_Witness ==
  \E i, j \in Inv :
    /\ i # j
    /\ Done(i) /\ Done(j)
    /\ req[i] = req[j]
    /\ L(req[i]).content_hash # ""
    /\ resp[i] = ProcessedResponse(L(req[i]).log_id)
    /\ resp[j] = ProcessedResponse(L(req[j]).log_id)
    /\ hist[i].got = << >> /\ hist[j].got = << >>
    /\ \E m, n \in 1..Len(writes) :
         /\ m # n
         /\ writes[m].id = hist[i].id /\ writes[n].id = hist[j].id
         /\ writes[m].ref = writes[n].ref

\* Writes m and n, m before n, are by two invocations that ran at the same
\* time: the later writer had been delivered when the earlier one wrote.
Overlapping(m, n) ==
  /\ m < n
  /\ writes[m].id # writes[n].id
  /\ writes[n].id <= writes[m].at

\* C6: when deliveries of the same envelope overlap and more than one of
\* them writes, the record finally stored equals, in every field except
\* processed_at, the record a single delivery of that envelope produces.
C6_RacingDuplicatesIdempotent ==
  \A ref \in DOMAIN store :
    LET n == LastWrite(ref) IN
      (\E m \in 1..Len(writes) :
         /\ Overlapping(m, n)
         /\ writes[m].ref = ref
         /\ writes[m].body = writes[n].body) =>
        SameButTime(store[ref], DocData(L(writes[n].body), 0))

C6_Witness ==
  \E m, n \in 1..Len(writes) :
    /\ Overlapping(m, n)
    /\ writes[m].ref = writes[n].ref
    /\ writes[m].body = writes[n].body
    /\ n = LastWrite(writes[n].ref)
    /\ writes[m].doc.processed_at # writes[n].doc.processed_at
    /\ store[writes[n].ref] = writes[n].doc

ValidationCodes ==
  { INVALID_ENVELOPE, MISSING_MESSAGE, INVALID_BASE64, MISSING_ATTRIBUTES }

IsObj(j) == j.t = "obj"

\* The message member of an envelope that is an object with a message that
\* is an object.
HasMessage(body) ==
  /\ IsObj(body)
  /\ "message" \in DOMAIN body.f
  /\ IsObj(body.f.message)

\* The attribute is absent or empty in the message (no attributes member
\* counts as no attribute).
AttributeMissing(message, name) ==
  \/ "attributes" \notin DOMAIN message.f
  \/ /\ IsObj(message.f.attributes)
     /\ \/ name \notin DOMAIN message.f.attributes.f
        \/ message.f.attributes.f[name] = ""

\* The validation failures: the body is not JSON, the envelope has no
\* message, the data cannot be decoded from base64 and UTF-8, or tenant_id
\* or log_id is absent or empty.
FailsValidation(b) ==
  LET body == Bodies[b] IN
    \/ body.t = "notjson"
    \/ IsObj(body) /\ "message" \notin DOMAIN body.f
    \/ /\ HasMessage(body)
       /\ "data" \in DOMAIN body.f.message.f
       /\ ~DecodeData(body.f.message.f.data).ok
    \/ /\ HasMessage(body)
       /\ \/ AttributeMissing(body.f.message, "tenant_id")
          \/ AttributeMissing(body.f.message, "log_id")

WritesOf(i) == { n \in 1..Len(writes) : writes[n].id = hist[i].id }

\* C7: every delivery that fails validation is answered with the terminal
\* status 400 and one of the four validation codes, never 500 and never
\* 200, and no store read or write is performed for it.
C7_ValidationFailureTerminal ==
  \A i \in Inv :
    (hist[i].id # 0 /\ FailsValidation(req[i])) =>
      /\ pc[i] \in {"received", "done"}
      /\ hist[i].reads = 0 /\ hist[i].writes = 0 /\ WritesOf(i) = {}
      /\ Done(i) =>
           /\ resp[i].status = 400
           /\ ~resp[i].success /\ ~resp[i].raised
           /\ resp[i].code \in ValidationCodes

C7_Witness ==
  \E i \in Inv :
    /\ Done(i)
    /\ FailsValidation(req[i])
    /\ resp[i].status = 400
    /\ resp[i].code = INVALID_BASE64
    /\ Exists(store, << "t1", "l1" >>)

\* An envelope that is JSON but not of the expected structure: the top level
\* is not an object, or message or attributes is present and not an object.
MalformedStructure(b) ==
  LET body == Bodies[b] IN
    /\ body.t # "notjson"
    /\ \/ ~IsObj(body)
       \/ "message" \in DOMAIN body.f /\ ~IsObj(body.f.message)
       \/ /\ HasMessage(body)
          /\ "attributes" \in DOMAIN body.f.message.f
          /\ ~IsObj(body.f.message.f.attributes)

\* C8: an envelope that parses as JSON but lacks the expected structure is
\* answered with the terminal status 400, not with 500 and not by an
\* exception that leaves the handler.
C8_MalformedEnvelopeRejected ==
  \A i \in Inv :
    (Done(i) /\ MalformedStructure(req[i])) =>
      resp[i].status = 400 /\ ~resp[i].raised

\* C9: a store failure during the duplicate-check read or the final write
\* of a valid delivery is answered with status 500 and code
\* PROCESSING_ERROR, which differs in status and in code from every
\* validation failure (400 with one of the four validation codes).
C9_StoreFailureRetryable ==
  /\ PROCESSING_ERROR \notin ValidationCodes
  /\ \A i \in Inv :
       Done(i) =>
         /\ hist[i].failed # "" =>
              /\ Valid(req[i])
              /\ resp[i].status = 500
              /\ resp[i].code = PROCESSING_ERROR
              /\ ~resp[i].success /\ ~resp[i].raised
         /\ resp[i].status = 400 =>
              /\ resp[i].code \in ValidationCodes
              /\ hist[i].failed = ""

C9_Witness ==
  \E m, n \in 1..Len(log) :
    /\ log[m].failed = "read" /\ log[n].failed = "write"
    /\ log[m].resp = ProcessingErrorResponse
    /\ log[n].resp = ProcessingErrorResponse
    /\ \E i \in Inv : Done(i) /\ hist[i].id \in {log[m].id, log[n].id}

\* C10: an invocation answers 200 "processed" only when its own store write
\* has been made, and every 200 answer is either "processed", with exactly
\* one write by that invocation, or "skipped", with none; no answer exists
\* before the invocation has finished.
C10_AckFollowsCommit ==
  \A i \in Inv :
    /\ Active(i) => resp[i] = NoResponse
    /\ resp[i].status = 200 =>
         \/ /\ resp[i].result = "processed"
            /\ hist[i].writes = 1
            /\ Cardinality(WritesOf(i)) = 1
            /\ \A n \in WritesOf(i) : writes[n].ref = DocRef(loc[i])
         \/ /\ resp[i].result = "skipped"
            /\ hist[i].writes = 0
            /\ WritesOf(i) = {}

C10_Witness ==
  \E i, j \in Inv :
    /\ resp[i].status = 200 /\ resp[i].result = "processed"
    /\ resp[j].status = 200 /\ resp[j].result = "skipped"
    /\ Cardinality(WritesOf(i)) = 1

\* A valid delivery that carries no fingerprint: content_hash is absent or
\* empty in its attributes.
NoFingerprint(b) ==
  /\ HasMessage(Bodies[b])
  /\ Valid(b)
  /\ LET attributes == Bodies[b].f.message.f.attributes.f IN
       \/ "content_hash" \notin DOMAIN attributes
       \/ attributes.content_hash = ""

\* C12: a delivery whose content_hash is absent or empty is never treated
\* as a duplicate: no duplicate-check read is made for it, it is never
\* answered "skipped", and it ends with one store write and 200 "processed"
\* whatever the store holds at its key (or with 500 and no write when the
\* write raises).
C12_NoFingerprintAlwaysProcessed ==
  \A i \in Inv :
    (hist[i].id # 0 /\ NoFingerprint(req[i])) =>
      /\ hist[i].reads = 0
      /\ resp[i].result # "skipped"
      /\ Done(i) =>
           /\ hist[i].failed # "read"
           /\ ProcessedOutcome(resp[i], hist[i].writes, hist[i].failed,
                               L(req[i]).log_id)
           /\ hist[i].failed = "" =>
                \E n \in WritesOf(i) :
                  /\ writes[n].doc.content_hash = ""
                  /\ writes[n].doc.original_text = L(req[i]).text

C12_Witness ==
  \E i \in Inv :
    /\ Done(i)
    /\ NoFingerprint(req[i])
    /\ "content_hash" \in DOMAIN Bodies[req[i]].f.message.f.attributes.f
    /\ Len(hist[i].seen) = 1
    /\ hist[i].seen[1].content_hash = ""
    /\ resp[i] = ProcessedResponse(L(req[i]).log_id)
    /\ store[KeyOf(req[i])].original_text = L(req[i]).text
    /\ store[KeyOf(req[i])] # hist[i].seen[1]

\* The path tenants/T/processed_logs/L named by the attributes of a valid
\* request body.
PathOf(b) ==
  LET attributes == Bodies[b].f.message.f.attributes.f
  IN  << attributes.tenant_id, attributes.log_id >>

\* C13: a step changes the document at a path only when it is the write of
\* an invocation whose envelope names that tenant and that log id, and the
\* duplicate-check read of an invocation gives the document at its own
\* path: the records of every other tenant, and of every other log id of
\* the same tenant, are left as they are.
C13_TenantIsolation ==
  [][/\ \A r \in DOMAIN store \cup DOMAIN store' :
          Snapshot(store', r) # Snapshot(store, r) =>
            \E i \in Inv :
              /\ pc[i] = "sleeping" /\ pc'[i] = "stored"
              /\ r = PathOf(req[i])
     /\ \A i \in Inv :
          (hist'[i].id = hist[i].id /\ hist'[i].reads > hist[i].reads
             /\ hist'[i].failed = "") =>
            hist'[i].got = Snapshot(store, PathOf(req[i]))]_vars

C13_Witness ==
  \E m, n \in 1..Len(writes) :
    /\ m < n
    /\ writes[m].ref[1] # writes[n].ref[1]
    /\ writes[m].ref[2] = writes[n].ref[2]
    /\ Overlapping(m, n)
    /\ store[writes[m].ref] = writes[m].doc
    /\ store[writes[n].ref] = writes[n].doc
    /\ \E k \in 1..Len(writes) : writes[k].ref \notin {writes[m].ref, writes[n].ref}

\* The attribute of a valid request body, or the default when it is absent.
AttributeOf(b, name, default) ==
  Get(Bodies[b].f.message.f.attributes, name, default)

\* The payload of a valid request body, decoded from base64 and UTF-8.
PayloadOf(b) ==
  LET message == Bodies[b].f.message
  IN  DecodeData(Get(message, "data", JChars(<< >>))).text

\* Document d is wholly derived from the envelope of request body b.
DerivedFrom(d, b) ==
  /\ Valid(b)
  /\ d.original_text = PayloadOf(b)
  /\ d.modified_data = redacted_text[PayloadOf(b)]
  /\ d.content_hash = AttributeOf(b, "content_hash", "")
  /\ d.source = AttributeOf(b, "source", "unknown")
  /\ d.correlation_id = AttributeOf(b, "correlation_id", "")

\* C14: every record in the store is wholly derived from one delivered
\* envelope: it is the document of the last write to its path, and that
\* write was made by an invocation of a body of the run whose decoded
\* payload, redaction of the payload, content_hash, source and
\* correlation_id are the fields of the record.
C14_RecordFromOneEnvelope ==
  \A ref \in DOMAIN store :
    LET n == LastWrite(ref) IN
      /\ n # 0
      /\ store[ref] = writes[n].doc
      /\ writes[n].body \in feed
      /\ PathOf(writes[n].body) = ref
      /\ DerivedFrom(store[ref], writes[n].body)

C14_Witness ==
  \E m, n \in 1..Len(writes) :
    /\ Overlapping(m, n)
    /\ writes[m].ref = writes[n].ref
    /\ writes[m].body # writes[n].body
    /\ n = LastWrite(writes[n].ref)
    /\ store[writes[n].ref].modified_data # store[writes[n].ref].original_text
    /\ store[writes[n].ref].correlation_id # writes[m].doc.correlation_id
    /\ store[writes[n].ref].content_hash = writes[m].doc.content_hash

\* The positions of an invocation, in the order of the code.
Position(p) ==
  CASE p = "idle"     -> 0
    [] p = "received" -> 1
    [] p = "decoded"  -> 2
    [] p = "sleeping" -> 3
    [] p = "stored"   -> 4
    [] p = "done"     -> 5

\* C15: within one invocation the steps are made in the order decode,
\* idempotency check (store read), delay, redaction and commit (store
\* write): the read is made after the decoding and before the delay starts,
\* the delay starts only from the check, the write is made only when the
\* delay is over, and a duplicate is answered from the check, with no delay
\* started and no document built or written.
C15_StepsInOrder ==
  [][\A i \in Inv :
       hist'[i].id = hist[i].id =>
         /\ Position(pc'[i]) >= Position(pc[i])
         /\ hist'[i].reads > hist[i].reads =>
              /\ pc[i] = "decoded"
              /\ hist[i].reads = 0 /\ hist[i].writes = 0
              /\ pc'[i] \in {"sleeping", "done"}
         /\ (pc[i] # "sleeping" /\ pc'[i] = "sleeping") =>
              /\ pc[i] = "decoded"
              /\ loc[i].content_hash # "" => hist'[i].reads = 1
              /\ wake'[i] >= now
         /\ hist'[i].writes > hist[i].writes =>
              /\ pc[i] = "sleeping" /\ pc'[i] = "stored"
              /\ now >= wake[i]
              /\ hist[i].writes = 0
              /\ \E n \in 1..Len(writes') :
                   /\ writes'[n].id = hist[i].id
                   /\ writes'[n].doc.modified_data
                        = redacted_text[loc[i].text]
         /\ (resp'[i].result = "skipped" /\ resp[i].result # "skipped") =>
              /\ pc[i] = "decoded" /\ pc'[i] = "done"
              /\ hist'[i].reads = 1 /\ hist'[i].writes = 0
              /\ wake'[i] = 0
              /\ store' = store /\ writes' = writes /\ now' = now]_vars

C15_Witness ==
  \E i, j \in Inv :
    /\ Done(i) /\ Done(j)
    /\ resp[i].result = "processed"
    /\ hist[i].reads = 1 /\ hist[i].writes = 1
    /\ wake[i] > 0
    /\ \E n \in WritesOf(i) :
         /\ writes[n].doc.processed_at >= wake[i]
         /\ writes[n].doc.modified_data # loc[i].text
    /\ resp[j].result = "skipped" /\ wake[j] = 0

\* Invocation i is suspended in its sleep, whose end has not come.
Suspended(i) == pc[i] = "sleeping" /\ now < wake[i]

\* C16: the delay suspends only its own invocation.  While an invocation is
\* inside its sleep every other invocation can take the step it stands at:
\* decode, the idempotency check with its store read, the write once its
\* own sleep is over, and its answer; no step of one invocation waits for
\* the sleep of another.
C16_DelaySuspendsOnlyItself ==
  \A i, j \in Inv :
    (i # j /\ Suspended(i)) =>
      /\ pc[j] = "received" => ENABLED Decode(j)
      /\ pc[j] = "decoded" => ENABLED Check(j)
      /\ (pc[j] = "sleeping" /\ now >= wake[j]) => ENABLED Commit(j)
      /\ pc[j] = "stored" => ENABLED Ack(j)

\* An invocation delivered after i went through all its steps, read and
\* write included, for the same key, while i was inside its sleep.
C16_Witness ==
  \E i, j \in Inv :
    /\ Suspended(i)
    /\ Done(j)
    /\ hist[j].id > hist[i].id
    /\ KeyOf(req[j]) = KeyOf(req[i])
    /\ hist[j].reads = 1 /\ hist[j].writes = 1
    /\ resp[j] = ProcessedResponse(L(req[j]).log_id)
    /\ \E n \in WritesOf(j) : writes[n].doc.processed_at > 0

\* C17: a valid delivery that passes the idempotency check is suspended
\* until N times the per-character delay (5 hundredths of a second) has
\* passed since the check, N the number of characters of its decoded text,
\* before its store write is attempted; for N = 0 the end of the delay is
\* the time of the check.  The delay does not change while the invocation
\* sleeps, and a skipped duplicate or a validation failure is answered at
\* once, with no delay started.
C17_DelayPerCharacter ==
  [][\A i \in Inv :
       hist'[i].id = hist[i].id =>
         /\ (pc[i] # "sleeping" /\ pc'[i] = "sleeping") =>
              /\ wake'[i] = now + 5 * Len(PayloadOf(req[i]))
              /\ now' = now
         /\ (pc[i] = "sleeping" /\ pc'[i] = "sleeping") => wake'[i] = wake[i]
         /\ (pc[i] = "sleeping" /\ pc'[i] # "sleeping") =>
              /\ now >= wake[i]
              /\ now' = now
         /\ (pc[i] \in {"received", "decoded"} /\ pc'[i] = "done") =>
              /\ wake'[i] = 0
              /\ now' = now]_vars

\* A text of two characters delivered at time 0 is written at time 10, and
\* an empty text delivered after that write is written at time 10 as well.
C17_Witness ==
  \E m, n \in 1..Len(writes) :
    /\ m < n
    /\ Len(writes[m].doc.original_text) = 2
    /\ writes[m].doc.processed_at = 10
    /\ writes[n].id > writes[m].at
    /\ Len(writes[n].doc.original_text) = 0
    /\ writes[n].doc.processed_at = 10
    /\ now = 10

\* C18: the pipeline never deletes.  No step removes a document: a path
\* that holds a record holds one after every step, whatever is delivered
\* afterwards and however it fails.
C18_NeverDeletes ==
  [][\A ref \in DOMAIN store : Exists(store', ref)]_vars

\* A record that is still there after two later deliveries for its key
\* failed, one in its read and one in its write.
C18_Witness ==
  \E ref \in DOMAIN store :
    \E m, n \in 1..Len(log) :
      /\ LastWrite(ref) # 0
      /\ log[m].failed = "read" /\ KeyOf(log[m].body) = ref
      /\ log[n].failed = "write" /\ KeyOf(log[n].body) = ref
      /\ \A j \in {m, n} : log[j].id > writes[LastWrite(ref)].id

\* A request body whose message has decodable data and whose attributes are
\* exactly a non-empty tenant_id and a non-empty log_id.
OnlyMandatory(b) ==
  /\ HasMessage(Bodies[b])
  /\ "data" \in DOMAIN Bodies[b].f.message.f
  /\ DecodeData(Bodies[b].f.message.f.data).ok
  /\ "attributes" \in DOMAIN Bodies[b].f.message.f
  /\ IsObj(Bodies[b].f.message.f.attributes)
  /\ LET attributes == Bodies[b].f.message.f.attributes.f IN
       /\ DOMAIN attributes = {"tenant_id", "log_id"}
       /\ attributes.tenant_id # "" /\ attributes.log_id # ""

\* C19: a delivery with non-empty tenant_id and log_id and without source,
\* content_hash and correlation_id passes validation and is processed: it
\* ends with 200 "processed" and one write of a document with source
\* "unknown", an empty content_hash and an empty correlation_id at its key
\* (or with 500 and no write when the write raises).
C19_OnlyTenantAndLogMandatory ==
  \A i \in Inv :
    (hist[i].id # 0 /\ OnlyMandatory(req[i])) =>
      /\ resp[i].status \notin {400}
      /\ Done(i) =>
           /\ ProcessedOutcome(resp[i], hist[i].writes, hist[i].failed,
                               Bodies[req[i]].f.message.f.attributes.f.log_id)
           /\ \A n \in WritesOf(i) :
                /\ writes[n].ref = PathOf(req[i])
                /\ writes[n].doc.source = "unknown"
                /\ writes[n].doc.content_hash = ""
                /\ writes[n].doc.correlation_id = ""
                /\ writes[n].doc.original_text = PayloadOf(req[i])

C19_Witness ==
  \E i \in Inv :
    /\ Done(i)
    /\ OnlyMandatory(req[i])
    /\ resp[i].status = 200 /\ resp[i].result = "processed"
    /\ store[PathOf(req[i])].source = "unknown"
    /\ store[PathOf(req[i])].content_hash = ""
    /\ store[PathOf(req[i])].correlation_id = ""
    /\ writes[LastWrite(PathOf(req[i]))].id = hist[i].id

\* The five patterns of redact_sensitive_data.
SensitivePatterns ==
  { FullPhonePattern, ShortPhonePattern, IpPattern, EmailPattern, SsnPattern }

\* Some pattern matches somewhere in the text.
Sensitive(s) ==
  \E pat \in SensitivePatterns, i \in 1..Len(s) : MatchAt(pat, 1, s, i) # 0

HasChar(s, set) == \E i \in 1..Len(s) : s[i] \in set

\* C20: for every text in which none of the phone, IPv4, email and SSN
\* patterns matches, redact_sensitive_data returns the text itself.
C20_NoMatchIdentity ==
  (ret # << >> /\ ~Sensitive(arg)) => ret[1] = arg

\* A returned call on a text with digits, separators and an "@" in which
\* nothing matches.
C20_Witness ==
  /\ ret = << arg >>
  /\ ~Sensitive(arg)
  /\ HasChar(arg, Digit)
  /\ HasChar(arg, Lit("@"))
  /\ HasChar(arg, Lit("-"))
  /\ Len(arg) >= 8

\* Message b has been answered 200.
Acknowledged(b) ==
  \E n \in 1..Len(log) : log[n].body = b /\ log[n].resp.status = 200

\* C11: when the queue redelivers every delivery answered 500 and the store
\* stops failing after finitely many calls, every valid message of the run
\* is eventually answered 200 with a record in the store at its
\* (tenant_id, log_id) key.
C11_RetryUntilStored ==
  \A b \in UNION LiveFeeds :
    (b \in feed /\ Valid(b)) ~> (Acknowledged(b) /\ Exists(store, PathOf(b)))

\* A message answered 500 and, redelivered, answered 200 "processed", with
\* its record in the store.
C11_Witness ==
  \E b \in feed :
    LET answers == Answers(b) IN
      /\ Len(answers) = 2
      /\ answers[1].resp = ProcessingErrorResponse
      /\ answers[2].resp.status = 200
      /\ answers[2].resp.result = "processed"
      /\ Exists(store, PathOf(b))
      /\ store[PathOf(b)].original_text = PayloadOf(b)

\* Text x stands in s at position p.
Occurs(x, s, p) ==
  /\ p >= 1
  /\ p + Len(x) - 1 <= Len(s)
  /\ SubSeq(s, p, p + Len(x) - 1) = x

Contains(x, s) == \E p \in 1..Len(s) : Occurs(x, s, p)

\* The positions of the marker literal in s.
Markers(s) == { p \in 1..Len(s) : Occurs(REDACTED, s, p) }

\* The ways to read s from position p as a list of items separated by
\* fillers and closed by a tail; each is the sequence of its items.
RECURSIVE ItemsFrom(_, _)
ItemsFrom(s, p) ==
  UNION { LET q == p + Len(Items[k]) IN
            (IF \E t \in 1..Len(Tails) : SubSeq(s, q, Len(s)) = Tails[t]
               THEN { << k >> } ELSE {})
            \cup UNION { { << k >> \o r :
                             r \in ItemsFrom(s, q + Len(Fillers[f])) } :
                         f \in { g \in 1..Len(Fillers) :
                                   Occurs(Fillers[g], s, q) } }
          : k \in { j \in 1..Len(Items) : Occurs(Items[j], s, p) } }

\* The item lists of a sentence; empty for a text that is not a sentence.
ItemsOf(s) ==
  UNION { ItemsFrom(s, Len(Heads[h]) + 1) :
            h \in { g \in 1..Len(Heads) : Occurs(Heads[g], s, 1) } }

\* C21: the result for a sentence of K sensitive items (short and full
\* phone numbers, IPv4 addresses, emails, SSNs), each separated from the
\* next by words or a blank, holds exactly K markers and none of the items.
C21_EveryItemRedacted ==
  ret # << >> =>
    \A its \in ItemsOf(arg) :
      /\ Cardinality(Markers(ret[1])) = Len(its)
      /\ \A n \in 1..Len(its) : ~Contains(Items[its[n]], ret[1])

\* C22: redacting a result again returns it unchanged, and none of the five
\* patterns matches anywhere in a result; the marker gives no new match.
C22_Idempotent ==
  ret # << >> =>
    /\ redact_sensitive_data(ret[1]) = ret[1]
    /\ ~Sensitive(ret[1])
    /\ ~Sensitive(REDACTED)

\* A result that holds a marker and digits left in clear.
C22_Witness ==
  /\ ret # << >>
  /\ Markers(ret[1]) # {}
  /\ HasChar(ret[1], Digit)
  /\ ret[1] # arg

\* The characters i..e-1 of s are a match of one of the patterns.  A rule
\* is applied to the output of the rules before it, so that the neighbour
\* of the span which a \b of the pattern looks at is, on either side, the
\* character of s or the bracket of a marker, which counts like the end of
\* the text.
IsMatch(s, i, e) ==
  \E pat \in SensitivePatterns, l, r \in BOOLEAN :
    LET left    == IF l /\ i > 1 THEN << s[i - 1] >> ELSE << >>
        right   == IF r /\ e <= Len(s) THEN << s[e] >> ELSE << >>
        context == left \o SubSeq(s, i, e - 1) \o right
    IN  MatchAt(pat, 1, context, Len(left) + 1) = Len(left) + (e - i) + 1

\* out from position j is s from position i with some disjoint matches
\* replaced by the marker and every other character kept, in order.
RECURSIVE Replaces(_, _, _, _)
Replaces(s, i, out, j) ==
  \/ i > Len(s) /\ j > Len(out)
  \/ /\ i <= Len(s)
     /\ j <= Len(out)
     /\ s[i] = out[j]
     /\ Replaces(s, i + 1, out, j + 1)
  \/ /\ Occurs(REDACTED, out, j)
     /\ \E e \in (i + 1)..(Len(s) + 1) :
          /\ IsMatch(s, i, e)
          /\ Replaces(s, e, out, j + Len(REDACTED))

\* "User 555-0199 accessed the system"
PdfExample ==
  Str(<< "U", "s", "e", "r", " ", "5", "5", "5", "-", "0", "1", "9", "9",
           " ", "a", "c", "c", "e", "s", "s", "e", "d", " ", "t", "h", "e", " ", "s",
           "y", "s", "t", "e", "m" >>)

\* "User [REDACTED] accessed the system"
PdfExampleRedacted ==
  Str(<< "U", "s", "e", "r", " ", "[", "R", "E", "D", "A", "C", "T", "E",
           "D", "]", " ", "a", "c", "c", "e", "s", "s", "e", "d", " ", "t", "h", "e",
           " ", "s", "y", "s", "t", "e", "m" >>)

\* C23: a result is the text with disjoint spans, each a match of one of
\* the patterns, replaced by "[REDACTED]" and every character outside them
\* kept in place and in order; "User 555-0199 accessed the system" gives
\* exactly "User [REDACTED] accessed the system".
C23_OnlyMatchesChange ==
  ret # << >> =>
    /\ Replaces(arg, 1, ret[1], 1)
    /\ arg = PdfExample => ret[1] = PdfExampleRedacted

\* The call on the example sentence has returned.
C23_Witness ==
  /\ ret # << >>
  /\ arg = PdfExample
  /\ Cardinality(Markers(ret[1])) = 1

\* redacted after the first k of the five re.sub calls.
Rules ==
  << FullPhonePattern, ShortPhonePattern, IpPattern, EmailPattern,
     SsnPattern >>

Stages(text) ==
  LET phone1 == Sub(Rules[1], text, 1)
      phone2 == Sub(Rules[2], phone1, 1)
      ip     == Sub(Rules[3], phone2, 1)
      email  == Sub(Rules[4], ip, 1)
      ssn    == Sub(Rules[5], email, 1)
  IN  << text, phone1, phone2, ip, email, ssn >>

Stage(text, k) == Stages(text)[k + 1]

\* The spans re.sub replaces in s from position i on: << first, end >>,
\* end being the position after the match.
RECURSIVE MatchSpans(_, _, _)
MatchSpans(pat, s, i) ==
  IF i > Len(s) THEN {}
  ELSE LET e == MatchAt(pat, 1, s, i) IN
       IF e # 0 THEN { << i, e >> } \cup MatchSpans(pat, s, e)
       ELSE MatchSpans(pat, s, i + 1)

\* The span shares no character with a marker of s.
ClearOfMarkers(span, s) ==
  \A p \in Markers(s) : span[2] <= p \/ span[1] >= p + Len(REDACTED)

\* C24: the result is the text passed through the full-form phone rule,
\* the short-form phone rule, the IPv4 rule, the email rule and the SSN rule
\* in this order, each applied to the output of the one before; no match of
\* a rule shares a character with a marker already in its input, and the
\* number of markers never decreases from one stage to the next.
C24_FixedOrderMarkersKept ==
  ret # << >> =>
    LET redacted == Stages(arg) IN
      /\ ret[1] = redacted[Len(Rules) + 1]
      /\ \A k \in 1..Len(Rules) :
           LET input == redacted[k]
               spans == MatchSpans(Rules[k], input, 1)
           IN  /\ \A span \in spans : ClearOfMarkers(span, input)
               /\ Cardinality(Markers(redacted[k + 1]))
                    = Cardinality(Markers(input)) + Cardinality(spans)

\* A text that the phone rule and the email rule both match: the phone
\* number in front of the "@" is replaced first and the email rule, applied
\* to "[REDACTED]@b.co", finds nothing.
C24_Witness ==
  /\ ret # << >>
  /\ Markers(Stage(arg, 1)) # {}
  /\ MatchAt(EmailPattern, 1, arg, 1) = Len(arg) + 1
  /\ MatchSpans(EmailPattern, Stage(arg, 3), 1) = {}
  /\ ret[1] # REDACTED

\* The request and the response of the n-th call of ingest().
RequestOf(n) == Requests[replies[n].request]
ReplyOf(n)   == replies[n].reply

\* The messages the n-th call has published.
MessagesOf(n) == { k \in DOMAIN topic : topic[k].by = n }

IsJson(q)  == StartsWith(ToLower(q.content_type), ApplicationJson)
IsPlain(q) == ~IsJson(q) /\ StartsWith(ToLower(q.content_type), TextPlain)

\* The request carries a tenant, a log id where it must, and a text that
\* is a string.
HasText(q) ==
  \/ /\ IsJson(q)
     /\ q.json.t = "obj"
     /\ ~Falsy(Get(q.json, "tenant_id", JNull))
     /\ ~Falsy(Get(q.json, "log_id", JNull))
     /\ Get(q.json, "text", JNull).t = "str"
  \/ IsPlain(q) /\ Truthy(q.x_tenant_id)

\* The text, the tenant and the source of such a request.
TextOf(q) ==
  IF IsJson(q) THEN Get(q.json, "text", JNull).c ELSE DecodeReplace(q.body)

TenantOf(q) ==
  IF IsJson(q) THEN Get(q.json, "tenant_id", JNull).c ELSE q.x_tenant_id[1]

SourceOf(q) == IF IsJson(q) THEN "json_upload" ELSE "text_upload"

\* The request is one that must be rejected: invalid JSON, a missing
\* tenant_id, log_id or text, a missing X-Tenant-ID header, a blank
\* text/plain body, an unsupported content type, or a text too long.
Defective(q) ==
  \/ ~IsJson(q) /\ ~IsPlain(q)
  \/ ~HasText(q)
  \/ IsJson(q) /\ Len(TextOf(q)) = 0
  \/ IsPlain(q) /\ Blank(TextOf(q))
  \/ Len(TextOf(q)) > MaxTextLength

\* C25: a call answered 400, 413 or 415 has published nothing; every
\* message in the topic comes from a request that passes every validation
\* and carries a non-empty tenant_id and log_id.
C25_OnlyValidatedPublished ==
  /\ \A n \in DOMAIN replies :
       ReplyOf(n).status \in {400, 413, 415} => MessagesOf(n) = {}
  /\ \A n \in DOMAIN replies :
       Defective(RequestOf(n)) =>
         /\ ReplyOf(n).status \in {400, 413, 415, 500}
         /\ MessagesOf(n) = {}
  /\ \A k \in DOMAIN topic :
       /\ topic[k].attrs.tenant_id # ""
       /\ topic[k].attrs.log_id # ""
       /\ ~Defective(RequestOf(topic[k].by))

\* A run with a rejected request and an accepted one: one message only.
C25_Witness ==
  /\ Len(replies) = 2
  /\ ReplyOf(1).status = 400
  /\ ReplyOf(1).message = "log_id required"
  /\ ReplyOf(2).status = 202
  /\ Len(topic) = 1
  /\ topic[1].by = 2

AttributeNames ==
  {"tenant_id", "log_id", "source", "content_hash", "schema_version",
   "correlation_id"}

\* C26: every call answered 202 has published exactly one message: its
\* data are the UTF-8 bytes of the text, its content_hash is the digest of
\* exactly these bytes, and it carries tenant_id, log_id, source,
\* schema_version and correlation_id; the log_id of the response is the
\* log_id attribute.  No message comes from a call answered otherwise.
C26_OneMessagePerAccepted ==
  /\ \A n \in DOMAIN replies :
       ReplyOf(n).status = 202 =>
         \E k \in DOMAIN topic :
           LET m == topic[k]
               q == RequestOf(n)
           IN  /\ MessagesOf(n) = {k}
               /\ m.data = Utf8Encode(TextOf(q), 1)
               /\ m.attrs.content_hash = sha256_hexdigest(m.data)
               /\ DOMAIN m.attrs = AttributeNames
               /\ m.attrs.tenant_id = TenantOf(q)
               /\ m.attrs.log_id = ReplyOf(n).log_id
               /\ m.attrs.source = SourceOf(q)
               /\ m.attrs.schema_version = SCHEMA_VERSION
               /\ m.attrs.correlation_id = ReplyOf(n).correlation_id
  /\ \A k \in DOMAIN topic : ReplyOf(topic[k].by).status = 202

\* Two accepted requests: a text/plain body that is not UTF-8, published as
\* the three bytes of U+FFFD under a generated log id, and a JSON record
\* with a blank text.
C26_Witness ==
  /\ Len(topic) = 2
  /\ \E k \in DOMAIN topic :
       /\ topic[k].data = << 239, 191, 189 >>
       /\ topic[k].attrs.source = "text_upload"
       /\ topic[k].attrs.log_id \in { Uuids[u] : u \in DOMAIN Uuids }
       /\ ReplyOf(topic[k].by).log_id = topic[k].attrs.log_id
  /\ \E k \in DOMAIN topic :
       /\ topic[k].data = Utf8Encode(TextBlank, 1)
       /\ topic[k].attrs.source = "json_upload"

\* C27: a response, once given, never changes; a 202 is given in the step
\* that hands the message to publish(), while its future is still pending;
\* when the broker then reports a failure, the only effect is one error
\* entry written by publish_callback.
C27_FireAndForget ==
  [][ /\ \A n \in DOMAIN replies :
           n \in DOMAIN replies' /\ replies'[n] = replies[n]
      /\ (/\ Len(replies') > Len(replies)
          /\ replies'[Len(replies')].reply.status = 202)
           => /\ Len(topic') = Len(topic) + 1
              /\ topic'[Len(topic')].future = "pending"
              /\ topic'[Len(topic')].by = Len(replies')
      /\ \A k \in DOMAIN topic :
           (topic[k].future = "pending" /\ topic'[k].future = "failed")
             => /\ replies' = replies
                /\ glog' = Append(glog, PublishFailed(topic[k].attrs.log_id))
                /\ UNCHANGED << store, pushes >>
    ]_vars

\* A request was answered 202 and its publish failed afterwards: the
\* response stands and the failure is in the log.
C27_Witness ==
  \E k \in DOMAIN topic :
    /\ topic[k].future = "failed"
    /\ ReplyOf(topic[k].by).status = 202
    /\ ReplyOf(topic[k].by).log_id = topic[k].attrs.log_id
    /\ \E e \in DOMAIN glog : glog[e] = PublishFailed(topic[k].attrs.log_id)

\* The publish step of the n-th call raised.
PublishRaised(n) == ReplyOf(n).status = 503

\* C28 as claimed: a text of more than MaxTextLength characters is answered
\* 413 and nothing is published; a non-empty text of at most MaxTextLength
\* characters is answered 202 (503 when the publish call itself raises).
C28_ShortTextAccepted ==
  \A n \in DOMAIN replies :
    LET q == RequestOf(n) IN
      HasText(q) =>
        /\ Len(TextOf(q)) > MaxTextLength =>
             ReplyOf(n).status = 413 /\ MessagesOf(n) = {}
        /\ (Len(TextOf(q)) > 0 /\ Len(TextOf(q)) <= MaxTextLength) =>
             ReplyOf(n).status \in {202, 503}

\* C28, amended: a text/plain body that is empty or white space only is
\* answered 400, as is an empty text of a JSON record; any other text of
\* more than MaxTextLength characters is answered 413 and nothing is
\* published; any other text of at most MaxTextLength characters, the limit
\* included, is answered 202 with one message published, or 503 with none
\* when the publish call raises.
C28_LengthLimitInclusive ==
  \A n \in DOMAIN replies :
    LET q == RequestOf(n) IN
      HasText(q) =>
        IF (IsPlain(q) /\ Blank(TextOf(q))) \/ Len(TextOf(q)) = 0
          THEN ReplyOf(n).status = 400 /\ MessagesOf(n) = {}
        ELSE IF Len(TextOf(q)) > MaxTextLength
          THEN /\ ReplyOf(n).status = 413
               /\ ReplyOf(n).code = PAYLOAD_TOO_LARGE
               /\ MessagesOf(n) = {}
        ELSE \/ ReplyOf(n).status = 202 /\ Cardinality(MessagesOf(n)) = 1
             \/ PublishRaised(n) /\ MessagesOf(n) = {}

\* A text of exactly MaxTextLength characters (more bytes than that) was
\* accepted and one of MaxTextLength + 1 characters was answered 413.
C28_Witness ==
  /\ \E n \in DOMAIN replies :
       /\ HasText(RequestOf(n))
       /\ Len(TextOf(RequestOf(n))) = MaxTextLength
       /\ Len(Utf8Encode(TextOf(RequestOf(n)), 1)) > MaxTextLength
       /\ ReplyOf(n).status = 202
       /\ Cardinality(MessagesOf(n)) = 1
  /\ \E n \in DOMAIN replies :
       /\ HasText(RequestOf(n))
       /\ Len(TextOf(RequestOf(n))) = MaxTextLength + 1
       /\ ReplyOf(n).status = 413
  /\ Len(topic) = 1

\* The path a published message addresses.
PathOfMessage(k) == << topic[k].attrs.tenant_id, topic[k].attrs.log_id >>

\* The deliveries that wrote the document at a path.
StoringPushes(path) ==
  { n \in DOMAIN pushes :
      pushes[n].result = "processed" /\ PathOfMessage(pushes[n].msg) = path }

\* The message of the last of them.
LastStored(path) ==
  pushes[CHOOSE n \in StoringPushes(path) :
           \A o \in StoringPushes(path) : o <= n].msg

GeneratedIds == { Uuids[u] : u \in 1..uuids }

\* The worker keeps in each document the correlation_id attribute of the
\* message it stored there, and the response of the gateway for that
\* message named the same value.
StoredCorrelationIds ==
  \A path \in DOMAIN store :
    /\ StoringPushes(path) # {}
    /\ store[path].correlation_id
         = topic[LastStored(path)].attrs.correlation_id
    /\ store[path].correlation_id
         = ReplyOf(topic[LastStored(path)].by).correlation_id

\* C29 as claimed: the correlation id of an accepted request is the value
\* of the X-Request-Id header whenever the header is present, and a
\* generated id otherwise; the response and the published attribute carry
\* the same value, and the worker stores it unchanged.
C29_HeaderIsCorrelationId ==
  /\ \A n \in DOMAIN replies :
       ReplyOf(n).status = 202 =>
         /\ IF RequestOf(n).x_request_id # << >>
              THEN ReplyOf(n).correlation_id = RequestOf(n).x_request_id[1]
              ELSE ReplyOf(n).correlation_id \in GeneratedIds
         /\ \A k \in MessagesOf(n) :
              topic[k].attrs.correlation_id = ReplyOf(n).correlation_id
  /\ StoredCorrelationIds

\* C29, amended: the correlation id of an accepted request is the value of
\* the X-Request-Id header when the header is present and not empty;
\* otherwise (no header, or an empty one) it is an id generated for this
\* request, unlike the id of any other request and unlike its generated
\* log id.  The response and the published attribute carry the same value,
\* and a document the worker stores for the message holds it unchanged.
C29_CorrelationIdCarried ==
  /\ \A n \in DOMAIN replies :
       ReplyOf(n).status = 202 =>
         /\ IF Truthy(RequestOf(n).x_request_id)
              THEN ReplyOf(n).correlation_id = RequestOf(n).x_request_id[1]
              ELSE /\ ReplyOf(n).correlation_id \in GeneratedIds
                   /\ ReplyOf(n).correlation_id # ReplyOf(n).log_id
                   /\ \A o \in DOMAIN replies \ {n} :
                        ReplyOf(o).correlation_id # ReplyOf(n).correlation_id
         /\ ReplyOf(n).correlation_id # ""
         /\ \A k \in MessagesOf(n) :
              topic[k].attrs.correlation_id = ReplyOf(n).correlation_id
  /\ StoredCorrelationIds

\* Two requests for one key, one with the header "r1" and one with "r2",
\* both accepted, published and stored: the document holds the id of the
\* one stored last.
C29_Witness ==
  /\ Len(pushes) = 2
  /\ pushes[1].result = "processed"
  /\ pushes[2].result = "processed"
  /\ pushes[1].msg # pushes[2].msg
  /\ PathOfMessage(pushes[1].msg) = PathOfMessage(pushes[2].msg)
  /\ ReplyOf(topic[pushes[1].msg].by).correlation_id = "r2"
  /\ ReplyOf(topic[pushes[2].msg].by).correlation_id = "r1"
  /\ store[PathOfMessage(pushes[2].msg)].correlation_id = "r1"

\* The identifiers the delivery carries in its attributes ("" for one the
\* envelope does not have).
DeliveryIds(b) ==
  LET body  == Bodies[b]
      attrs == IF HasMessage(body)
                    /\ "attributes" \in DOMAIN body.f.message.f
                    /\ IsObj(body.f.message.f.attributes)
                 THEN body.f.message.f.attributes
                 ELSE EmptyObj
  IN  [tenant_id      |-> Get(attrs, "tenant_id", ""),
       log_id         |-> Get(attrs, "log_id", ""),
       correlation_id |-> Get(attrs, "correlation_id", "")]

\* The log record carries the three identifiers of the delivery.
CarriesIds(entry, b) ==
  /\ entry.tenant_id = DeliveryIds(b).tenant_id
  /\ entry.log_id = DeliveryIds(b).log_id
  /\ entry.correlation_id = DeliveryIds(b).correlation_id

\* C30: every invocation answered 400 or 500 has logged a record that
\* carries the tenant id, the log id and the correlation id of its
\* delivery; none returns without logging.
C30_FailuresLoggedWithIds ==
  \A n \in DOMAIN log :
    log[n].resp.status \in {400, 500} =>
      \E k \in DOMAIN log[n].logged : CarriesIds(log[n].logged[k], log[n].body)

\* C31: when two deliveries for the same (tenant_id, log_id) with different
\* fingerprints overlap and both write, the record finally stored is the one
\* written last, whichever of the two was received first: the store holds
\* the record derived from the last writer's envelope and not the
\* fingerprint of the other.
C31_LastWriteWins ==
  \A m, n \in 1..Len(writes) :
    (/\ Overlapping(m, n)
     /\ writes[m].ref = writes[n].ref
     /\ writes[m].doc.content_hash # writes[n].doc.content_hash
     /\ n = LastWrite(writes[n].ref)) =>
      /\ store[writes[n].ref] = writes[n].doc
      /\ SameButTime(store[writes[n].ref], DocData(L(writes[n].body), 0))
      /\ store[writes[n].ref].content_hash # writes[m].doc.content_hash

\* The earlier-received delivery has the longer text, writes last, and its
\* record is the one stored when both have been answered.
C31_Witness ==
  \E m, n \in 1..Len(writes) :
    /\ Overlapping(m, n)
    /\ writes[m].ref = writes[n].ref
    /\ writes[m].doc.content_hash # writes[n].doc.content_hash
    /\ n = LastWrite(writes[n].ref)
    /\ writes[n].id < writes[m].id
    /\ Len(L(writes[n].body).text) > Len(L(writes[m].body).text)
    /\ writes[n].doc.processed_at > writes[m].doc.processed_at
    /\ \A i \in Inv : Done(i)
    /\ store[writes[n].ref].content_hash = L(writes[n].body).content_hash
    /\ store[writes[n].ref].content_hash # L(writes[m].body).content_hash

\* The answer is a failure (400 or 500) or a skipped duplicate.
NotProcessed(r) == r.status \in {400, 500} \/ r.result = "skipped"

\* The store a delivery of body b leaves when it runs alone on store st and
\* is answered r (the time of processing left aside).
StoreAfter(st, b, r, time) ==
  IF r.result = "processed" THEN Set(st, KeyOf(b), DocData(L(b), time))
  ELSE st

\* C32: the store changes only in invocations answered 200 "processed".
\* Every store write is by an invocation that is answered "processed"; an
\* invocation answered 400, 500 or 200 "skipped" has written nothing, and
\* when no other invocation ran during it the whole store is, when it
\* returns, what it was when the delivery arrived; so a redelivery that
\* follows such an attempt leaves the store that the redelivery alone
\* leaves on the store the failed attempt found.
C32_OnlyProcessedChangesStore ==
  /\ \A n \in DOMAIN log :
       NotProcessed(log[n].resp) =>
         /\ log[n].writes = 0
         /\ \A w \in DOMAIN writes : writes[w].id # log[n].id
         /\ ~log[n].overlapped => log[n].left = log[n].found
  /\ \A w \in DOMAIN writes :
       \/ \E i \in Inv : pc[i] = "stored" /\ hist[i].id = writes[w].id
       \/ \E n \in DOMAIN log :
            log[n].id = writes[w].id /\ log[n].resp.result = "processed"
  /\ \A i \in Inv :
       (/\ Alone(i)
        /\ hist[i].prev >= 1
        /\ log[hist[i].prev].id = hist[i].id - 1
        /\ log[hist[i].prev].body = req[i]
        /\ ~log[hist[i].prev].overlapped
        /\ NotProcessed(log[hist[i].prev].resp)) =>
         /\ hist[i].found = log[hist[i].prev].found
         /\ store = StoreAfter(log[hist[i].prev].found, req[i], resp[i], now)

\* A write that raised is answered 500 on a store that holds a record, and
\* the redelivery that follows is processed and replaces that record.
C32_Witness ==
  \E i \in Inv :
    /\ Alone(i)
    /\ hist[i].prev >= 1
    /\ log[hist[i].prev].id = hist[i].id - 1
    /\ log[hist[i].prev].body = req[i]
    /\ ~log[hist[i].prev].overlapped
    /\ log[hist[i].prev].resp.status = 500
    /\ log[hist[i].prev].failed = "write"
    /\ DOMAIN log[hist[i].prev].found # {}
    /\ log[hist[i].prev].left = log[hist[i].prev].found
    /\ resp[i].result = "processed"
    /\ store # hist[i].found

\* The completed invocation made the duplicate-check read of a valid
\* delivery and the read returned.
Gated(rec) ==
  /\ Valid(rec.body)
  /\ rec.reads = 1
  /\ rec.failed # "read"

\* C33: the skip decision depends only on the key, the incoming fingerprint
\* and the fingerprint stored at the key.  Two invocations whose reads of
\* the same key gave the same stored fingerprint, for deliveries with the
\* same fingerprint, are both skipped or both processed, whatever their
\* texts; each is skipped exactly when the stored fingerprint is its own,
\* and a skipped invocation writes nothing, so its text is not stored.
C33_SkipIgnoresText ==
  /\ \A m, n \in DOMAIN log :
       (/\ Gated(log[m]) /\ Gated(log[n])
        /\ KeyOf(log[m].body) = KeyOf(log[n].body)
        /\ L(log[m].body).content_hash = L(log[n].body).content_hash
        /\ Len(log[m].got) = Len(log[n].got)
        /\ StoredHash(log[m].got) = StoredHash(log[n].got)) =>
         (log[m].resp.result = "skipped") = (log[n].resp.result = "skipped")
  /\ \A n \in DOMAIN log :
       Gated(log[n]) =>
         /\ (log[n].resp.result = "skipped") =
              IsDuplicate(log[n].got, L(log[n].body).content_hash)
         /\ log[n].resp.result = "skipped" =>
              /\ log[n].writes = 0
              /\ \A w \in DOMAIN writes : writes[w].id # log[n].id

\* A delivery that carries the stored fingerprint with another text is
\* skipped like the duplicate with the stored text, and the store keeps the
\* text it had.
C33_Witness ==
  \E m, n \in DOMAIN log :
    /\ Gated(log[m]) /\ Gated(log[n])
    /\ KeyOf(log[m].body) = KeyOf(log[n].body)
    /\ L(log[m].body).content_hash = L(log[n].body).content_hash
    /\ StoredHash(log[m].got) = L(log[m].body).content_hash
    /\ log[m].got = log[n].got
    /\ L(log[m].body).text # L(log[n].body).text
    /\ log[m].got[1].original_text = L(log[m].body).text
    /\ log[m].resp.result = "skipped"
    /\ log[n].resp.result = "skipped"
    /\ store[KeyOf(log[n].body)].original_text # L(log[n].body).text
    /\ \A w \in DOMAIN writes : writes[w].doc.original_text # L(log[n].body).text

\* Calls a and b of ingest() were given the same JSON record: the same
\* tenant_id, log_id and text.
SameRecord(a, b) ==
  /\ IsJson(RequestOf(a)) /\ IsJson(RequestOf(b))
  /\ RequestOf(a).json = RequestOf(b).json

\* C34: when the same JSON record is ingested twice and both calls are
\* accepted, the two published messages carry the same fingerprint (and the
\* same key and data); when the worker then handles the one and the other,
\* in either order, the first is answered "processed" and writes the
\* record, the second is answered "skipped" and leaves the store as the
\* first left it, so that exactly one store write happens.
C34_ReingestedRecordSkipped ==
  \A a, b \in DOMAIN replies :
    (/\ a # b
     /\ SameRecord(a, b)
     /\ ReplyOf(a).status = 202
     /\ ReplyOf(b).status = 202) =>
      \A j \in MessagesOf(a), k \in MessagesOf(b) :
        /\ topic[j].attrs.content_hash = topic[k].attrs.content_hash
        /\ topic[j].attrs.content_hash # ""
        /\ topic[j].attrs.tenant_id = topic[k].attrs.tenant_id
        /\ topic[j].attrs.log_id = topic[k].attrs.log_id
        /\ topic[j].data = topic[k].data
        /\ (Len(pushes) = 2 /\ pushes[1].msg = j /\ pushes[2].msg = k) =>
             /\ pushes[1].result = "processed"
             /\ pushes[2].result = "skipped"
             /\ pushes[2].left = pushes[1].left
             /\ store = pushes[1].left
             /\ DOMAIN store =
                  {<< topic[j].attrs.tenant_id, topic[j].attrs.log_id >>}
             /\ store[<< topic[j].attrs.tenant_id, topic[j].attrs.log_id >>]
                  .correlation_id = topic[j].attrs.correlation_id

\* The record is ingested once without and once with an X-Request-Id
\* header; the message of the second call is skipped by the worker.
C34_Witness ==
  \E a, b \in DOMAIN replies :
    /\ a < b
    /\ SameRecord(a, b)
    /\ RequestOf(a) # RequestOf(b)
    /\ ReplyOf(a).status = 202
    /\ ReplyOf(b).status = 202
    /\ \E j \in MessagesOf(a), k \in MessagesOf(b) :
         /\ topic[j].attrs.correlation_id # topic[k].attrs.correlation_id
         /\ Len(pushes) = 2
         /\ pushes[1].msg = j
         /\ pushes[2].msg = k
         /\ pushes[2].result = "skipped"
         /\ DOMAIN store # {}

\* The n-th call reached the publish step (its request passes every
\* validation) and get_publisher() or pub.publish() raised in it.
PublishCallRaised(n) ==
  /\ replies[n].fault # "none"
  /\ ~Defective(RequestOf(n))

\* C35: a call whose publish step raises is answered 503 with code
\* SERVICE_UNAVAILABLE, publishes nothing and logs the exception; no call
\* whose publish step raised is answered 202.
C35_PublishExceptionAnswered503 ==
  \A n \in DOMAIN replies :
    /\ PublishCallRaised(n) =>
         /\ ReplyOf(n) = GatewayError(503, SERVICE_UNAVAILABLE,
                                      "failed to queue message")
         /\ MessagesOf(n) = {}
         /\ \E e \in DOMAIN glog : glog[e] = PublishException
    /\ ReplyOf(n).status = 202 => replies[n].fault = "none"
    /\ ReplyOf(n).status = 503 => PublishCallRaised(n)

\* pub.publish() raises for a valid JSON record, after a call that was
\* accepted.
C35_Witness ==
  \E m, n \in DOMAIN replies :
    /\ m < n
    /\ ReplyOf(m).status = 202
    /\ replies[n].fault = "publish"
    /\ IsJson(RequestOf(n))
    /\ PublishCallRaised(n)
    /\ ReplyOf(n).status = 503
    /\ ReplyOf(n).code = SERVICE_UNAVAILABLE
    /\ Len(topic) = 1

\* The four validation checks of the worker, each on its own: the body is
\* not JSON; the envelope has no message (or an empty one); the data of the
\* message cannot be decoded; tenant_id or log_id is absent or empty.
NotParsed(b) == Bodies[b].t = "notjson"

NoMessage(b) ==
  IsObj(Bodies[b]) /\ Falsy(Get(Bodies[b], "message", JNull))

Undecodable(b) ==
  /\ HasMessage(Bodies[b])
  /\ ~DecodeData(Get(Bodies[b].f.message, "data", JChars(<< >>))).ok

NoRequiredAttributes(b) ==
  /\ HasMessage(Bodies[b])
  /\ \/ AttributeMissing(Bodies[b].f.message, "tenant_id")
     \/ AttributeMissing(Bodies[b].f.message, "log_id")

\* The code of the first check that fails, in the order JSON parse,
\* message, payload decode, required attributes ("" when none fails).
FirstFailure(b) ==
  IF NotParsed(b) THEN INVALID_ENVELOPE
  ELSE IF NoMessage(b) THEN MISSING_MESSAGE
  ELSE IF Undecodable(b) THEN INVALID_BASE64
  ELSE IF NoRequiredAttributes(b) THEN MISSING_ATTRIBUTES
  ELSE ""

\* The outcome of the four checks for each request body of the model.
Checks ==
  [b \in BodyIds |->
     [first |-> FirstFailure(b),
      parse |-> NotParsed(b), message |-> NoMessage(b),
      decode |-> ~NoMessage(b) /\ Undecodable(b),
      attributes |-> NoRequiredAttributes(b),
      malformed |-> MalformedStructure(b)]]

\* C36: the validation checks run in the order JSON parse, presence of
\* message, payload decode, required attributes, and the first check that
\* fails gives the error code of the 400 answer; a delivery answered 400
\* carries the code of its first failing check, and a message with an
\* undecodable payload is answered INVALID_BASE64 whether or not its
\* tenant_id and log_id are there.
C36_FirstFailingCheckDecides ==
  \A n \in DOMAIN log :
    LET c == Checks[log[n].body]
        r == log[n].resp
    IN /\ r.status = 400 =>
            /\ c.first # ""
            /\ r.code = c.first
            /\ r.message = ValidationMessage(c.first)
       /\ (c.parse \/ c.message) => r.status = 400 /\ r.code = c.first
       /\ c.decode => r.status = 400 /\ r.code = INVALID_BASE64
       /\ (c.first = MISSING_ATTRIBUTES /\ ~c.malformed) =>
            r.status = 400 /\ r.code = MISSING_ATTRIBUTES

\* A message whose payload cannot be decoded and that has neither
\* tenant_id nor log_id is answered INVALID_BASE64.
C36_Witness ==
  \E n \in DOMAIN log :
    /\ Checks[log[n].body].decode
    /\ Checks[log[n].body].attributes
    /\ log[n].resp.status = 400
    /\ log[n].resp.code = INVALID_BASE64
    /\ log[n].resp.code # MISSING_ATTRIBUTES

\* The request bodies that carry tenant_id and log_id and no payload: the
\* message has no data member, or its data is the empty string.
NoPayload(b) ==
  /\ HasMessage(Bodies[b])
  /\ ~NoRequiredAttributes(b)
  /\ ~MalformedStructure(b)
  /\ \/ "data" \notin DOMAIN Bodies[b].f.message.f
     \/ Bodies[b].f.message.f.data = JChars(<< >>)

NoPayloadBodies == { b \in BodyIds : NoPayload(b) }

Skipped(path) ==
  StartsWith(path, HealthPrefix) \/ StartsWith(path, MetricsPrefix)

\* The number of counted paths among the first n calls.
RECURSIVE Counted(_)
Counted(n) ==
  IF n = 0 THEN 0
  ELSE Counted(n - 1) + (IF Skipped(calls[n]) THEN 0 ELSE 1)

\* C38: after any sequence of record_request calls the request counter
\* equals the number of calls whose path starts with neither /health nor
\* /metrics (and last_request_at is set exactly when there was one); no
\* step decreases the counter, and a call with a skipped path leaves the
\* counter and last_request_at unchanged.
C38_CounterCountsUnskippedCalls ==
  /\ [](/\ REQUESTS_TOTAL = Counted(Len(calls))
        /\ (LAST_REQUEST_AT = << >>) = (REQUESTS_TOTAL = 0)
        /\ \A k \in DOMAIN report :
             report[k].requests_total <= REQUESTS_TOTAL)
  /\ [][/\ REQUESTS_TOTAL' >= REQUESTS_TOTAL
        /\ (Len(calls') = Len(calls) + 1 /\ Skipped(calls'[Len(calls')])) =>
             /\ REQUESTS_TOTAL' = REQUESTS_TOTAL
             /\ LAST_REQUEST_AT' = LAST_REQUEST_AT
        /\ (Len(calls') = Len(calls) + 1 /\ ~Skipped(calls'[Len(calls')])) =>
             /\ REQUESTS_TOTAL' = REQUESTS_TOTAL + 1
             /\ LAST_REQUEST_AT' = << clock >>]_vars

\* One counted request, then, later, calls for /health/live and /metrics:
\* the counter is 1 and last_request_at is the time of the first call.
C38_Witness ==
  /\ Len(calls) = 3
  /\ ~Skipped(calls[1])
  /\ calls[2] = HealthPrefix \o Str(<< "/", "l", "i", "v", "e" >>)
  /\ calls[3] = MetricsPrefix
  /\ REQUESTS_TOTAL = 1
  /\ LAST_REQUEST_AT = << 0 >>
  /\ clock = MaxClock
  /\ report # << >>
  /\ report[1].requests_total = 1
  /\ report[1].uptime_seconds = MaxClock

=============================================================================
